---- MODULE Spec2Model ----
(***************************************************************************)
(* A model of the vcard crate: the logical line assembler and the card     *)
(* state machine (src/vcard/src/reader.rs), the property decoder           *)
(* (src/vcard/src/models/property.rs, parameter.rs), the alternative       *)
(* representation containers (src/vcard/src/models/containers.rs) and the  *)
(* serializer (src/vcard_macro/src/lib.rs, src/vcard/src/models/model.rs). *)
(*                                                                         *)
(* Text is a sequence of one-character strings, so "N:a" is <<"N",":","a">>*)
(* and the empty string is <<>>.  Option<T> is a sequence of length 0      *)
(* (None) or 1 (Some(x)).  Input bytes are ASCII, so String::from_utf8     *)
(* never fails in the model.                                               *)
(***************************************************************************)
EXTENDS Integers, Sequences, FiniteSets, TLC

VARIABLES
    container,  \* AltIDContainer<T>.0 : the Vec<T> of one container
    accepted,   \* history: the items add_value returned Ok for, in call order
    call,       \* the last call on the interface under test: operation, argument, return value
    written,      \* history: the logical lines the input was written from
    stream,      \* the bytes handed to VCardReader::new
    reader,       \* VCardReader.inner : the PushbackReader, with max_logical_line_length
    pc,         \* where parse_vcard stands
    vcard,      \* parse_vcard's `result` : None before it is built, Some(VCard) after
    outcome,    \* None while parse_vcard runs and after Ok, Some(error) after Err
    trace,      \* history: what each read_property call of parse_vcard returned
    first       \* history: the card that was serialized, None before serialization

cvars == <<container, accepted, call>>
rvars == <<written, stream, reader, pc, vcard, outcome, trace, first>>
vars == <<container, accepted, call, written, stream, reader, pc, vcard, outcome, trace, first>>

None == <<>>
Some(x) == <<x>>
IsSome(o) == o # <<>>

(***************************************************************************)
(* containers.rs / vcard_macro: Alternative, Preferable                    *)
(***************************************************************************)

\* mutant: an absent alt-id is different from every present one, the empty one included
GetAltIdTagged(item) == IF item.altid = None THEN <<"\n">> ELSE item.altid[1]

\* #[derive(AltID)]: self.altid.as_ref().map(String::as_str).unwrap_or_else(||"")
get_alt_id(item) == IF item.altid = None THEN <<>> ELSE item.altid[1]

\* #[derive(Pref)]: self.pref.unwrap_or_else(||100)
get_pref(item) == IF item.pref = None THEN 100 ELSE item.pref[1]

Ok(v) == [ok |-> TRUE, val |-> v]
Err(e) == [ok |-> FALSE, err |-> e]

InvalidAltID(expected, actual) ==
    [kind |-> "InvalidAltID", expected_altid |-> expected, actual_altid |-> actual]

\* mutant: every item is pushed, whatever its alt-id
AddValueUnchecked(c, item) == [res |-> Ok(<<>>), c |-> Append(c, item)]

\* mutant: the item is pushed before its alt-id is compared
AddValuePushedFirst(c, item) ==
    IF Len(c) = 0
    THEN [res |-> Ok(<<>>), c |-> Append(c, item)]
    ELSE LET prev_altid == get_alt_id(c[1]) IN
         IF prev_altid # get_alt_id(item)
         THEN [res |-> Err(InvalidAltID(prev_altid, get_alt_id(item))), c |-> Append(c, item)]
         ELSE [res |-> Ok(<<>>), c |-> Append(c, item)]

\* AltIDContainer::add_value: the result and the container after the call
AltIDContainer_add_value(c, item) ==
    IF Len(c) = 0
    THEN [res |-> Ok(<<>>), c |-> Append(c, item)]
    ELSE LET prev_altid == get_alt_id(c[1]) IN
         IF prev_altid # get_alt_id(item)
         THEN [res |-> Err(InvalidAltID(prev_altid, get_alt_id(item))), c |-> c]
         ELSE [res |-> Ok(<<>>), c |-> Append(c, item)]

\* the loop of get_prefered_value over self.0.iter(), from index i with the
\* current prefered_item (an Option)
RECURSIVE PreferedScan(_, _, _)
PreferedScan(c, i, prefered_item) ==
    IF i > Len(c) THEN prefered_item
    ELSE IF prefered_item = None THEN PreferedScan(c, i + 1, Some(c[i]))
    ELSE IF get_pref(prefered_item[1]) > get_pref(c[i]) THEN PreferedScan(c, i + 1, Some(c[i]))
    ELSE PreferedScan(c, i + 1, prefered_item)

\* mutant: the last member wins
PreferedLast(c) == IF Len(c) = 0 THEN None ELSE Some(c[Len(c)])

\* AltIDContainer::get_prefered_value
AltIDContainer_get_prefered_value(c) == PreferedScan(c, 1, None)

(***************************************************************************)
(* Text primitives of the Rust standard library that the decoder uses      *)
(***************************************************************************)

UpperChars == <<"A", "B", "C", "D", "E", "F", "G", "H", "I", "J", "K", "L", "M",
                "N", "O", "P", "Q", "R", "S", "T", "U", "V", "W", "X", "Y", "Z">>
LowerChars == <<"a", "b", "c", "d", "e", "f", "g", "h", "i", "j", "k", "l", "m",
                "n", "o", "p", "q", "r", "s", "t", "u", "v", "w", "x", "y", "z">>
DigitChars == <<"0", "1", "2", "3", "4", "5", "6", "7", "8", "9">>

ToLowerChar(c) ==
    IF \E i \in 1..26 : UpperChars[i] = c
    THEN LowerChars[CHOOSE i \in 1..26 : UpperChars[i] = c] ELSE c
ToUpperChar(c) ==
    IF \E i \in 1..26 : LowerChars[i] = c
    THEN UpperChars[CHOOSE i \in 1..26 : LowerChars[i] = c] ELSE c

\* str::to_lowercase, str::to_uppercase
to_lowercase(s) == [i \in 1..Len(s) |-> ToLowerChar(s[i])]
to_uppercase(s) == [i \in 1..Len(s) |-> ToUpperChar(s[i])]

MinOf(S) == CHOOSE x \in S : \A y \in S : x <= y
MaxOf(S) == CHOOSE x \in S : \A y \in S : x >= y

\* the first index >= from of a character of set cs, Len(s) + 1 when there is none
FirstIn(s, from, cs) ==
    LET I == {i \in from..Len(s) : s[i] \in cs} IN
    IF I = {} THEN Len(s) + 1 ELSE MinOf(I)

\* the first index >= from of a character outside cs, Len(s) + 1 when there is none
FirstNotIn(s, from, cs) ==
    LET I == {i \in from..Len(s) : s[i] \notin cs} IN
    IF I = {} THEN Len(s) + 1 ELSE MinOf(I)

From(s, i) == SubSeq(s, i, Len(s))

\* str::starts_with
starts_with(s, p) == Len(s) >= Len(p) /\ SubSeq(s, 1, Len(p)) = p

\* str::trim_start_matches(c), str::trim_end_matches(c)
trim_start_matches(s, c) == From(s, FirstNotIn(s, 1, {c}))
trim_end_matches(s, c) ==
    LET I == {i \in 1..Len(s) : s[i] # c} IN
    IF I = {} THEN <<>> ELSE SubSeq(s, 1, MaxOf(I))

\* str::split_once(c): None, or Some(<<before, after>>)
split_once(s, c) ==
    LET i == FirstIn(s, 1, {c}) IN
    IF i > Len(s) THEN None ELSE Some(<<SubSeq(s, 1, i - 1), From(s, i + 1)>>)

\* str::split(c), collected: every piece, the empty ones included
RECURSIVE split(_, _)
split(s, c) ==
    LET i == FirstIn(s, 1, {c}) IN
    IF i > Len(s) THEN <<s>> ELSE <<SubSeq(s, 1, i - 1)>> \o split(From(s, i + 1), c)

\* [T]::join(sep) of a list of texts
RECURSIVE join(_, _)
join(l, sep) ==
    IF Len(l) = 0 THEN <<>>
    ELSE IF Len(l) = 1 THEN l[1]
    ELSE l[1] \o sep \o join(Tail(l), sep)

IsDigit(c) == \E i \in 1..10 : DigitChars[i] = c
DigitVal(c) == (CHOOSE i \in 1..10 : DigitChars[i] = c) - 1

RECURSIVE DecimalValue(_, _)
DecimalValue(s, acc) ==
    IF Len(s) = 0 THEN acc ELSE DecimalValue(Tail(s), acc * 10 + DigitVal(Head(s)))

ParseIntError == [kind |-> "ParseIntError"]

\* u8::from_str: an optional '+', then one or more digits, at most 255
u8_from_str(s) ==
    LET d == IF Len(s) > 0 /\ s[1] = "+" THEN Tail(s) ELSE s IN
    IF Len(d) = 0 \/ \E i \in 1..Len(d) : ~IsDigit(d[i]) THEN Err(ParseIntError)
    ELSE IF DecimalValue(d, 0) > 255 THEN Err(ParseIntError)
    ELSE Ok(DecimalValue(d, 0))

\* u8 as Display
RECURSIVE DecimalText(_)
DecimalText(n) ==
    IF n < 10 THEN <<DigitChars[n + 1]>>
    ELSE DecimalText(n \div 10) \o <<DigitChars[(n % 10) + 1]>>

(***************************************************************************)
(* reader.rs: PushbackReader.  A reader is                                 *)
(*   [inner       : the bytes the underlying BufReader has yet to deliver, *)
(*    buf         : <<buf[0], buf[1]>>,                                    *)
(*    n           : num_returned_bytes,                                    *)
(*    discard_buf : VCardReader.discard_buf,                               *)
(*    max         : VCardReader.max_logical_line_length]                   *)
(***************************************************************************)

CR == "\r"
LF == "\n"
SP == " "
TAB == "\t"
CRLF == <<CR, LF>>

DEFAULT_MAX_LINE_LENGTH == 5000

\* VCardReader::new_with_logical_line_limit
NewReader(input, max_logical_line_length) ==
    [inner |-> input, buf |-> <<"0", "0">>, n |-> 0, discard_buf |-> <<>>,
     max |-> max_logical_line_length]

IoEof == [kind |-> "Io", io |-> "UnexpectedEof"]

\* PushbackReader::return_byte
return_byte(rd, b) ==
    LET k == IF rd.n >= 2 THEN 0 ELSE rd.n IN
    [rd EXCEPT !.buf = [rd.buf EXCEPT ![k + 1] = b], !.n = k + 1]

\* mutant: the two bytes are stored in the order they are taken off a stack
ReturnBytesReversed(rd, b) == [rd EXCEPT !.buf = <<b[2], b[1]>>, !.n = 2]

\* PushbackReader::return_bytes
return_bytes(rd, b) == [rd EXCEPT !.buf = b, !.n = 2]

\* <PushbackReader as Read>::read into a one-byte buffer, as read_exact drives
\* it: [ok, byte, rd]; a read of 0 bytes is read_exact's UnexpectedEof
ReadByte(rd) ==
    IF rd.n = 0
    THEN IF Len(rd.inner) = 0
         THEN [ok |-> FALSE, byte |-> "0", rd |-> rd]
         ELSE [ok |-> TRUE, byte |-> Head(rd.inner), rd |-> [rd EXCEPT !.inner = Tail(rd.inner)]]
    ELSE \* result == 1: self.buf[0] = self.buf[1]; num_returned_bytes - 1
         [ok |-> TRUE, byte |-> rd.buf[1],
          rd |-> [rd EXCEPT !.buf = <<rd.buf[2], rd.buf[2]>>, !.n = rd.n - 1]]

\* read_exact into a two-byte buffer: [ok, bytes, rd]; the bytes read before an
\* end of stream are consumed
ReadTwo(rd) ==
    LET Second(a, b) ==
            IF ~b.ok THEN [ok |-> FALSE, bytes |-> <<a.byte, "0">>, rd |-> b.rd]
            ELSE [ok |-> TRUE, bytes |-> <<a.byte, b.byte>>, rd |-> b.rd]
        First(a) ==
            IF ~a.ok THEN [ok |-> FALSE, bytes |-> <<"0", "0">>, rd |-> a.rd]
            ELSE Second(a, ReadByte(a.rd))
    IN IF rd.n = 2
       THEN \* the chain delivers both returned bytes: result == 2
            [ok |-> TRUE, bytes |-> rd.buf, rd |-> [rd EXCEPT !.n = 0]]
       ELSE First(ReadByte(rd))

(***************************************************************************)
(* parameter.rs: Parameter, Pid, ValueDataType                             *)
(***************************************************************************)


\* the named value types: <<variant, serialized token>>
ValueDataTypes == <<
    <<"Uri", <<"u", "r", "i">>>>,
    <<"Text", <<"t", "e", "x", "t">>>>,
    <<"Date", <<"d", "a", "t", "e">>>>,
    <<"Time", <<"t", "i", "m", "e">>>>,
    <<"DateTime", <<"d", "a", "t", "e", "-", "t", "i", "m", "e">>>>,
    <<"DateAndOrTime", <<"d", "a", "t", "e", "-", "a", "n", "d", "-", "o", "r", "-", "t", "i", "m", "e">>>>,
    <<"Timestamp", <<"t", "i", "m", "e", "s", "t", "a", "m", "p">>>>,
    <<"Boolean", <<"b", "o", "o", "l", "e", "a", "n">>>>,
    <<"Integer", <<"i", "n", "t", "e", "g", "e", "r">>>>,
    <<"Float", <<"f", "l", "o", "a", "t">>>>,
    <<"UtcOffset", <<"u", "t", "c", "-", "o", "f", "f", "s", "e", "t">>>>,
    <<"LanguageTag", <<"l", "a", "n", "g", "u", "a", "g", "e", "-", "t", "a", "g">>>>>>

X_UPPER == <<"X", "-">>
X_LOWER == <<"x", "-">>

UnknownType(s) == [kind |-> "UnknownType", given_type |-> s]

\* ValueDataType::from_str
ValueDataType_from_str(s) ==
    IF \E i \in 1..Len(ValueDataTypes) : ValueDataTypes[i][2] = s
    THEN Ok([tag |-> ValueDataTypes[CHOOSE i \in 1..Len(ValueDataTypes) : ValueDataTypes[i][2] = s][1],
             s |-> <<>>])
    ELSE IF ~starts_with(s, X_UPPER) /\ ~starts_with(s, X_LOWER) THEN Err(UnknownType(s))
    ELSE Ok([tag |-> "Proprietary", s |-> s])

InvalidLine(reason, raw) == [kind |-> "InvalidLine", reason |-> reason, raw_line |-> raw]

Param(kind, v) == [kind |-> kind, v |-> v]

\* the PID arm of Parameter::from_str
PidFromStr(v) ==
    LET Both(first_digit, second) ==
            IF ~second.ok THEN second
            ELSE Ok(Param("Pid", [first_digit |-> first_digit.val,
                                  second_digit |-> Some(second.val)]))
        Digits(parts, first_digit) ==
            IF ~first_digit.ok THEN first_digit
            ELSE IF Len(parts) = 1
            THEN Ok(Param("Pid", [first_digit |-> first_digit.val, second_digit |-> None]))
            ELSE Both(first_digit, u8_from_str(parts[2]))
        Parts(parts) == Digits(parts, u8_from_str(parts[1]))
    IN Parts(split(v, "."))

\* Parameter::from_str
Parameter_from_str(raw) ==
    LET Wrap(kind, r) == IF r.ok THEN Ok(Param(kind, r.val)) ELSE r
        Match(identifier, v) ==
            CASE identifier = <<"l", "a", "n", "g", "u", "a", "g", "e">> -> Ok(Param("Language", v))
              [] identifier = <<"p", "r", "e", "f">> -> Wrap("Pref", u8_from_str(v))
              [] identifier = <<"a", "l", "t", "i", "d">> -> Ok(Param("AltId", v))
              [] identifier = <<"p", "i", "d">> -> PidFromStr(v)
              [] identifier = <<"v", "a", "l", "u", "e">> -> Wrap("Value", ValueDataType_from_str(v))
              [] identifier = <<"t", "y", "p", "e">> -> Ok(Param("Type", split(v, ",")))
              [] identifier = <<"m", "e", "d", "i", "a", "t", "y", "p", "e">> -> Ok(Param("MediaType", v))
              [] identifier = <<"c", "a", "l", "s", "c", "a", "l", "e">> -> Ok(Param("CalScale", v))
              [] identifier = <<"s", "o", "r", "t", "-", "a", "s">> -> Ok(Param("SortAs", split(v, ",")))
              [] identifier = <<"g", "e", "o">> -> Ok(Param("Geo", v))
              [] identifier = <<"t", "z">> -> Ok(Param("TimeZone", v))
              [] OTHER -> Ok(Param("Proprietary", v))
        Split(kv) ==
            IF kv = None THEN Err(InvalidLine("parameter has no = sign", raw))
            ELSE Match(to_lowercase(kv[1][1]), kv[1][2])
    IN Split(split_once(raw, "="))

(***************************************************************************)
(* property.rs: parse_parameters, escaped_split, the pattern RE            *)
(***************************************************************************)

\* the loop of parse_parameters over raw.as_bytes() from index i:
\* Ok(list of parameters) or the first error
RECURSIVE ParseParametersLoop(_, _, _, _, _)
ParseParametersLoop(raw, i, prev, buf, result) ==
    LET Last(param) == IF param.ok THEN Ok(Append(result, param.val)) ELSE param
        Push(param) ==
            IF param.ok THEN ParseParametersLoop(raw, i + 1, prev, <<>>, Append(result, param.val))
            ELSE param
    IN IF i > Len(raw) THEN Last(Parameter_from_str(buf))
       ELSE IF raw[i] = ";" /\ prev # "\\" THEN Push(Parameter_from_str(buf))
       ELSE ParseParametersLoop(raw, i + 1, raw[i], Append(buf, raw[i]), result)

\* parse_parameters
parse_parameters(raw) ==
    ParseParametersLoop(trim_start_matches(raw, ";"), 1, "0", <<>>, <<>>)

\* the loop of escaped_split over item.chars() from index i
RECURSIVE EscapedSplitLoop(_, _, _, _, _, _)
EscapedSplitLoop(item, spl, i, escaped_value, buf, result) ==
    IF i > Len(item) THEN Append(result, buf)
    ELSE IF escaped_value
    THEN EscapedSplitLoop(item, spl, i + 1, FALSE, Append(buf, item[i]), result)
    ELSE IF item[i] = "\\"
    THEN EscapedSplitLoop(item, spl, i + 1, TRUE, buf, result)
    ELSE IF item[i] = spl
    THEN EscapedSplitLoop(item, spl, i + 1, FALSE, <<>>, Append(result, buf))
    ELSE EscapedSplitLoop(item, spl, i + 1, FALSE, Append(buf, item[i]), result)

\* escaped_split
escaped_split(item, spl) == EscapedSplitLoop(item, spl, 1, FALSE, <<>>, <<>>)

\* .filter_map(filter_and_transform): the non-empty pieces
RECURSIVE filter_and_transform(_)
filter_and_transform(l) ==
    IF Len(l) = 0 THEN <<>>
    ELSE IF Len(Head(l)) = 0 THEN filter_and_transform(Tail(l))
    ELSE <<Head(l)>> \o filter_and_transform(Tail(l))

\* escaped_split(item, ',').filter_map(filter_and_transform).collect()
SubItems(item) == filter_and_transform(escaped_split(item, ","))

\* The pattern RE (property.rs line 154): an optional group, one or more
\* characters other than ';' and ':' followed by '.'; a name, one or more
\* characters other than ';' and ':'; any number of parameter parts, each a ';'
\* and one or more characters other than ':'; a ':'; the value, any characters
\* but a line feed.  It is matched leftmost-first from start s.  The name ends
\* at e, the first ';' or ':' from s on.  With line[e] = ':' there is no
\* parameter; with line[e] = ';' the one repetition of the parameter part runs
\* to the first ':' after e, at c, and needs a character between.  The group is
\* the text up to the last '.' that leaves a character before it and a character
\* of name after it.
NameEnd(line, s) == FirstIn(line, s, {";", ":"})
ColonAfter(line, e) == FirstIn(line, e + 1, {":"})
MatchesAt(line, s) ==
    LET NameTo(e) ==
            /\ e <= Len(line)
            /\ \/ line[e] = ":"
               \/ /\ line[e] = ";"
                  /\ ColonAfter(line, e) <= Len(line)
                  /\ ColonAfter(line, e) >= e + 2
    IN line[s] \notin {";", ":"} /\ NameTo(NameEnd(line, s))

\* RE.captures(line): None, or Some([group, name, parameter, value]), where
\* group and parameter are Options
RE_captures(line) ==
    LET \* the match from s with the name ending at e, the colon at c, the name
        \* starting at n, and the text after the colon
        Groups(s, e, c, n, rest) ==
            Some([group |-> IF n = s THEN None ELSE Some(SubSeq(line, s, n - 1)),
                  name |-> SubSeq(line, n, e - 1),
                  parameter |-> IF c = e THEN None ELSE Some(SubSeq(line, e, c - 1)),
                  \* '.' does not match a line feed
                  value |-> SubSeq(rest, 1, FirstIn(rest, 1, {LF}) - 1)])
        Dots(s, e, c, dots) ==
            Groups(s, e, c, IF dots = {} THEN s ELSE MaxOf(dots) + 1, From(line, c + 1))
        Name(s, e) ==
            Dots(s, e, IF line[e] = ":" THEN e ELSE ColonAfter(line, e),
                 {d \in (s + 1)..(e - 2) : line[d] = "."})
        Leftmost(s) == Name(s, NameEnd(line, s))
        Starts(starts) == IF starts = {} THEN None ELSE Leftmost(MinOf(starts))
    IN Starts({s \in 1..Len(line) : MatchesAt(line, s)})

(***************************************************************************)
(* property.rs: Property and Property::from_str.  One record shape serves  *)
(* every variant: `type` is the variant, a field the variant's struct does *)
(* not have stays at its blank value.  The payload is in `value` (a text), *)
(* `items` (a list of texts: NICKNAME, CATEGORIES, ORG), `positions` (the  *)
(* lists of N and ADR in field order), `version`, `kind`, `sex` and        *)
(* `identity_component`, `pid_digit`, or `name` and `parameters`           *)
(* (ProprietaryProperty).                                                  *)
(***************************************************************************)

NoKind == [tag |-> "", s |-> <<>>]

BlankProperty ==
    [type |-> "", group |-> None, altid |-> None, pid |-> None, pref |-> None,
     value_data_type |-> None, type_param |-> None, mediatype |-> None,
     calscale |-> None, language |-> None, sort_as |-> None, geo |-> None,
     tz |-> None, label |-> None,
     value |-> <<>>, items |-> <<>>, positions |-> <<>>, version |-> "",
     kind |-> NoKind, sex |-> None, identity_component |-> None, pid_digit |-> 0,
     name |-> <<>>, parameters |-> <<>>]

\* the locals of from_str that the parameter loop fills
NoParameters ==
    [pid |-> None, altid |-> None, mediatype |-> None, tz |-> None, geo |-> None,
     sort_as |-> None, calscale |-> None, type_param |-> None,
     value_data_type |-> None, pref |-> None, language |-> None, label |-> None,
     proprietary_parameters |-> <<>>]

\* one arm of `match param` in from_str
Demux1(acc, param) ==
    CASE param.kind = "Pid" -> [acc EXCEPT !.pid = Some(param.v)]
      [] param.kind = "AltId" -> [acc EXCEPT !.altid = Some(param.v)]
      [] param.kind = "MediaType" -> [acc EXCEPT !.mediatype = Some(param.v)]
      [] param.kind = "TimeZone" -> [acc EXCEPT !.tz = Some(param.v)]
      [] param.kind = "Geo" -> [acc EXCEPT !.geo = Some(param.v)]
      [] param.kind = "SortAs" -> [acc EXCEPT !.sort_as = Some(param.v)]
      [] param.kind = "CalScale" -> [acc EXCEPT !.calscale = Some(param.v)]
      [] param.kind = "Value" -> [acc EXCEPT !.value_data_type = Some(param.v)]
      [] param.kind = "Type" ->
            IF IsSome(acc.type_param)
            THEN [acc EXCEPT !.type_param = Some(acc.type_param[1] \o param.v)]
            ELSE [acc EXCEPT !.type_param = Some(param.v)]
      [] param.kind = "Language" -> [acc EXCEPT !.language = Some(param.v)]
      [] param.kind = "Pref" -> [acc EXCEPT !.pref = Some(param.v)]
      [] param.kind = "Label" -> [acc EXCEPT !.label = Some(param.v)]
      [] param.kind = "Proprietary" ->
            [acc EXCEPT !.proprietary_parameters = Append(@, param)]

\* `for param in parameters { match param ... }` of from_str
RECURSIVE Demux(_, _)
Demux(parameters, acc) ==
    IF Len(parameters) = 0 THEN acc
    ELSE Demux(Tail(parameters), Demux1(acc, Head(parameters)))


\* the arms of from_str that build a struct from the line's value as it is:
\* <<name, variant, the fields the arm fills from the group and the parameters>>
PlainArms == <<
    <<<<"s", "o", "u", "r", "c", "e">>, "Source",
      {"pid", "altid", "mediatype", "group"}>>,
    <<<<"f", "n">>, "FN",
      {"group", "altid", "type_param", "value_data_type", "language", "pref"}>>,
    <<<<"p", "h", "o", "t", "o">>, "Photo",
      {"group", "altid", "pid", "mediatype", "type_param", "value_data_type", "pref"}>>,
    <<<<"b", "d", "a", "y">>, "BDay",
      {"altid", "calscale", "language", "value_data_type"}>>,
    <<<<"a", "n", "n", "i", "v", "e", "r", "s", "a", "r", "y">>, "Anniversary",
      {"altid", "calscale", "value_data_type"}>>,
    <<<<"t", "e", "l">>, "Tel",
      {"value_data_type", "type_param", "pid", "pref", "altid"}>>,
    <<<<"e", "m", "a", "i", "l">>, "Email",
      {"altid", "group", "pid", "pref", "value_data_type", "type_param"}>>,
    <<<<"i", "m", "p", "p">>, "Impp",
      {"group", "altid", "pid", "pref", "value_data_type", "type_param", "mediatype"}>>,
    <<<<"l", "a", "n", "g">>, "Lang",
      {"altid", "pid", "pref", "value_data_type", "type_param", "group"}>>,
    <<<<"t", "z">>, "Tz",
      {"altid", "pid", "pref", "value_data_type", "type_param", "mediatype", "group"}>>,
    <<<<"g", "e", "o">>, "Geo",
      {"altid", "pid", "pref", "value_data_type", "type_param", "mediatype", "group"}>>,
    <<<<"t", "i", "t", "l", "e">>, "Title",
      {"altid", "pid", "pref", "value_data_type", "type_param", "language", "group"}>>,
    <<<<"r", "o", "l", "e">>, "Role",
      {"altid", "pid", "pref", "value_data_type", "type_param", "language", "group"}>>,
    <<<<"m", "e", "m", "b", "e", "r">>, "Member",
      {"altid", "pid", "pref", "group", "mediatype"}>>,
    <<<<"r", "e", "l", "a", "t", "e", "d">>, "Related",
      {"altid", "pid", "pref", "value_data_type", "type_param", "language", "mediatype", "group"}>>,
    <<<<"l", "o", "g", "o">>, "Logo",
      {"altid", "pid", "pref", "value_data_type", "type_param", "language", "mediatype", "group"}>>,
    <<<<"n", "o", "t", "e">>, "Note",
      {"altid", "pid", "pref", "value_data_type", "type_param", "language", "group"}>>,
    <<<<"p", "r", "o", "d", "i", "d">>, "ProdId",
      {"group"}>>,
    <<<<"r", "e", "v">>, "Rev",
      {"group"}>>,
    <<<<"s", "o", "u", "n", "d">>, "Sound",
      {"altid", "pid", "pref", "value_data_type", "type_param", "language", "mediatype", "group"}>>,
    <<<<"u", "i", "d">>, "Uid",
      {"value_data_type", "group"}>>,
    <<<<"u", "r", "l">>, "Url",
      {"group", "altid", "pid", "pref", "value_data_type", "type_param", "mediatype"}>>,
    <<<<"k", "e", "y">>, "Key",
      {"group", "altid", "pid", "pref", "value_data_type", "type_param", "mediatype"}>>,
    <<<<"f", "b", "u", "r", "l">>, "FbUrl",
      {"group", "altid", "pid", "pref", "value_data_type", "type_param", "mediatype"}>>,
    <<<<"c", "a", "l", "a", "d", "u", "r", "i">>, "CalAdUri",
      {"group", "altid", "pid", "pref", "value_data_type", "type_param", "mediatype"}>>,
    <<<<"c", "a", "l", "u", "r", "i">>, "CalUri",
      {"group", "altid", "pid", "pref", "value_data_type", "type_param", "mediatype"}>>,
    <<<<"x", "m", "l">>, "Xml",
      {"altid", "group"}>>>>

\* a struct of variant `type` whose listed fields are taken from the group and
\* the decoded parameters
Struct(type, fields, group, p) ==
    [f \in DOMAIN BlankProperty |->
        IF f = "type" THEN type
        ELSE IF f \notin fields THEN BlankProperty[f]
        ELSE IF f = "group" THEN group
        ELSE p[f]]

InvalidVersion(v) == [kind |-> "InvalidVersion", value |-> v]
InvalidGenderError(s) == [kind |-> "InvalidGenderError", value |-> s]
InvalidSyntax(property, message) ==
    [kind |-> "InvalidSyntax", property |-> property, message |-> message]
InvalidName(name, raw) == [kind |-> "InvalidName", actual_name |-> name, raw_line |-> raw]

\* KindValue::from_str
KindValue_from_str(s) ==
    LET Match(l) ==
            CASE l = <<"i", "n", "d", "i", "v", "i", "d", "u", "a", "l">> -> [tag |-> "Individual", s |-> <<>>]
              [] l = <<"g", "r", "o", "u", "p">> -> [tag |-> "Group", s |-> <<>>]
              [] l = <<"o", "r", "g">> -> [tag |-> "Org", s |-> <<>>]
              [] l = <<"l", "o", "c", "a", "t", "i", "o", "n">> -> [tag |-> "Location", s |-> <<>>]
              [] OTHER -> [tag |-> "Proprietary", s |-> s]
    IN Match(to_lowercase(s))

\* mutant: the sex token is matched as it is written
SexFromStrCaseSensitive(s) ==
    LET Match(l) ==
            CASE l = <<"m">> -> Ok("Male")
              [] l = <<"f">> -> Ok("Female")
              [] l = <<"o">> -> Ok("Other")
              [] l = <<"n">> -> Ok("None")
              [] l = <<"u">> -> Ok("Unknown")
              [] OTHER -> Err(InvalidGenderError(s))
    IN Match(s)

\* Sex::from_str
Sex_from_str(s) ==
    LET Match(l) ==
            CASE l = <<"m">> -> Ok("Male")
              [] l = <<"f">> -> Ok("Female")
              [] l = <<"o">> -> Ok("Other")
              [] l = <<"n">> -> Ok("None")
              [] l = <<"u">> -> Ok("Unknown")
              [] OTHER -> Err(InvalidGenderError(s))
    IN Match(to_lowercase(s))

\* split.next().unwrap_or_else(Vec::new), k times: the first k positions of a
\* structured value, each split into its non-empty sub-items
Positions(value, k) ==
    LET Take(parts) == [i \in 1..k |-> IF i <= Len(parts) THEN SubItems(parts[i]) ELSE <<>>]
    IN Take(escaped_split(value, ";"))

\* the "gender" arm
GenderArm(value) ==
    LET Build(sex, identity, parsed) ==
            IF Len(sex) > 0 /\ ~parsed.ok THEN parsed
            ELSE Ok([BlankProperty EXCEPT
                        !.type = "Gender",
                        !.sex = IF Len(sex) = 0 THEN None ELSE Some(parsed.val),
                        !.identity_component = Some(identity)])
        Split(so) ==
            IF so = None
            THEN Err(InvalidSyntax("Gender", "gender property must include a semicolon (;)"))
            ELSE Build(so[1][1], so[1][2], Sex_from_str(so[1][1]))
    IN Split(split_once(value, ";"))

\* the "clientidmap" arm
ClientPidMapArm(value, group) ==
    LET Build(parts, pid) ==
            IF ~pid.ok THEN pid
            ELSE IF Len(parts) < 2
            THEN Err(InvalidLine("expected clientpidmap value to have two parts separated by ';'", value))
            ELSE Ok([BlankProperty EXCEPT !.type = "ClientPidMap", !.group = group,
                                          !.value = parts[2], !.pid_digit = pid.val])
        Parts(parts) == Build(parts, u8_from_str(parts[1]))
    IN Parts(split(value, ";"))

\* the `_` arm: the pushes onto proprietary_parameters, in the arm's order
ProprietaryParameters(p) ==
    p.proprietary_parameters
    \o (IF IsSome(p.altid) THEN <<Param("AltId", p.altid[1])>> ELSE <<>>)
    \o (IF IsSome(p.pid) THEN <<Param("Pid", p.pid[1])>> ELSE <<>>)
    \o (IF IsSome(p.mediatype) THEN <<Param("MediaType", p.mediatype[1])>> ELSE <<>>)
    \o (IF IsSome(p.tz) THEN <<Param("TimeZone", p.tz[1])>> ELSE <<>>)
    \o (IF IsSome(p.geo) THEN <<Param("Geo", p.geo[1])>> ELSE <<>>)
    \o (IF IsSome(p.sort_as) THEN <<Param("SortAs", p.sort_as[1])>> ELSE <<>>)
    \o (IF IsSome(p.calscale) THEN <<Param("CalScale", p.calscale[1])>> ELSE <<>>)
    \o (IF IsSome(p.label) THEN <<Param("Label", p.label[1])>> ELSE <<>>)
    \o (IF IsSome(p.type_param) THEN <<Param("Type", p.type_param[1])>> ELSE <<>>)
    \o (IF IsSome(p.pref) THEN <<Param("Pref", p.pref[1])>> ELSE <<>>)
    \o (IF IsSome(p.language) THEN <<Param("Language", p.language[1])>> ELSE <<>>)

\* the `_` arm
ProprietaryArm(line, name, value, group, p) ==
    IF ~starts_with(name, X_UPPER) /\ ~starts_with(name, X_LOWER)
    THEN Err(InvalidName(name, line))
    ELSE Ok([BlankProperty EXCEPT !.type = "Proprietary", !.name = name, !.value = value,
                                  !.group = group, !.parameters = ProprietaryParameters(p)])

\* `match &name.to_lowercase()[..]` of from_str
Dispatch(line, name, value, group, p) ==
    LET l == to_lowercase(name) IN
    CASE l = <<"b", "e", "g", "i", "n">> -> Ok([BlankProperty EXCEPT !.type = "Begin", !.value = value])
      [] l = <<"e", "n", "d">> -> Ok([BlankProperty EXCEPT !.type = "End", !.value = value])
      [] l = <<"v", "e", "r", "s", "i", "o", "n">> ->
            IF value = <<"4", ".", "0">> THEN Ok([BlankProperty EXCEPT !.type = "Version", !.version = "V4"])
            ELSE IF value = <<"3", ".", "0">> THEN Ok([BlankProperty EXCEPT !.type = "Version", !.version = "V3"])
            ELSE Err(InvalidVersion(value))
      [] l = <<"k", "i", "n", "d">> ->
            Ok([BlankProperty EXCEPT !.type = "Kind", !.group = group,
                                     !.kind = KindValue_from_str(value)])
      [] l = <<"n">> ->
            Ok([Struct("N", {"language", "sort_as", "altid", "group"}, group, p)
                    EXCEPT !.positions = Positions(value, 5)])
      [] l = <<"n", "i", "c", "k", "n", "a", "m", "e">> ->
            Ok([Struct("NickName", {"altid", "pref", "type_param", "value_data_type",
                                    "language", "pid", "group"}, group, p)
                    EXCEPT !.items = escaped_split(value, ",")])
      [] l = <<"g", "e", "n", "d", "e", "r">> -> GenderArm(value)
      [] l = <<"a", "d", "r">> ->
            Ok([Struct("Adr", {"altid", "pid", "label", "language", "geo", "tz",
                               "value_data_type", "type_param", "pref", "group"}, group, p)
                    EXCEPT !.positions = Positions(value, 7)])
      [] l = <<"c", "a", "t", "e", "g", "o", "r", "i", "e", "s">> ->
            Ok([Struct("Categories", {"altid", "pid", "pref", "value_data_type",
                                      "type_param", "group"}, group, p)
                    EXCEPT !.items = filter_and_transform(escaped_split(value, ","))])
      [] l = <<"o", "r", "g">> ->
            Ok([Struct("Org", {"altid", "pid", "pref", "value_data_type", "type_param",
                               "language", "sort_as", "group"}, group, p)
                    EXCEPT !.items = filter_and_transform(escaped_split(value, ";"))])
      [] l = <<"c", "l", "i", "e", "n", "t", "i", "d", "m", "a", "p">> -> ClientPidMapArm(value, group)
      [] \E i \in 1..Len(PlainArms) : PlainArms[i][1] = l ->
            LET arm == PlainArms[CHOOSE i \in 1..Len(PlainArms) : PlainArms[i][1] = l] IN
            Ok([Struct(arm[2], arm[3], group, p) EXCEPT !.value = value])
      [] OTHER -> ProprietaryArm(line, name, value, group, p)

\* Property::from_str: Ok(property) or Err(error)
Property_from_str(line) ==
    LET Build(cap, group, parameters) ==
            IF ~parameters.ok THEN parameters
            ELSE Dispatch(line, cap.name, cap.value, group, Demux(parameters.val, NoParameters))
        Captured(cap) ==
            Build(cap,
                  IF cap.group = None THEN None ELSE Some(trim_end_matches(cap.group[1], ".")),
                  IF cap.parameter = None THEN Ok(<<>>) ELSE parse_parameters(cap.parameter[1]))
        Match(captures) ==
            IF captures = None THEN Err(InvalidLine("does not match property pattern", line))
            ELSE Captured(captures[1])
    IN Match(RE_captures(line))

(***************************************************************************)
(* reader.rs: the logical line assembler                                   *)
(***************************************************************************)

MaxLineLengthExceeded(m) == [kind |-> "MaxLineLengthExceeded", max |-> m]

\* VCardReader::read_physical_line(buf): [ok, err, buf, rd]
RECURSIVE read_physical_line(_, _)
read_physical_line(rd, buf) ==
    LET AfterCR(b) ==
            IF ~b.ok THEN [ok |-> FALSE, err |-> IoEof, buf |-> buf, rd |-> b.rd]
            ELSE IF b.byte = LF THEN [ok |-> TRUE, err |-> <<>>, buf |-> buf, rd |-> b.rd]
            ELSE \* buf.extend(tmp_buf): tmp_buf now holds the second byte
                 read_physical_line(b.rd, Append(buf, b.byte))
        Byte(a) ==
            IF ~a.ok THEN [ok |-> FALSE, err |-> IoEof, buf |-> buf, rd |-> a.rd]
            ELSE IF a.byte = CR THEN AfterCR(ReadByte(a.rd))
            ELSE read_physical_line(a.rd, Append(buf, a.byte))
    IN IF Len(buf) > rd.max
       THEN [ok |-> FALSE, err |-> MaxLineLengthExceeded(rd.max), buf |-> buf, rd |-> rd]
       ELSE Byte(ReadByte(rd))

\* mutant: the two inspected bytes of the next property are not given back
InspectNextLineConsuming(rd) ==
    LET Inspect(r) ==
            IF ~r.ok THEN [kind |-> "NoMoreContent", rd |-> r.rd]
            ELSE IF r.bytes[1] # SP /\ r.bytes[1] # TAB
            THEN [kind |-> "NewProperty", rd |-> r.rd]
            ELSE IF r.bytes[2] \in {SP, TAB, LF, CR}
            THEN [kind |-> "Discard", rd |-> return_bytes(r.rd, r.bytes)]
            ELSE [kind |-> "LogicalLine", rd |-> return_byte(r.rd, r.bytes[2])]
    IN Inspect(ReadTwo(rd))

\* VCardReader::inspect_next_line: [kind, rd]
inspect_next_line(rd) ==
    LET Inspect(r) ==
            IF ~r.ok THEN [kind |-> "NoMoreContent", rd |-> r.rd]
            ELSE IF r.bytes[1] # SP /\ r.bytes[1] # TAB
            THEN [kind |-> "NewProperty", rd |-> return_bytes(r.rd, r.bytes)]
            ELSE IF r.bytes[2] \in {SP, TAB, LF, CR}
            THEN [kind |-> "Discard", rd |-> return_bytes(r.rd, r.bytes)]
            ELSE [kind |-> "LogicalLine", rd |-> return_byte(r.rd, r.bytes[2])]
    IN Inspect(ReadTwo(rd))

\* VCardReader::discard_line: [ok, err, rd]
discard_line(rd) ==
    LET Keep(r) == [ok |-> r.ok, err |-> r.err, rd |-> [r.rd EXCEPT !.discard_buf = r.buf]]
    IN Keep(read_physical_line(rd, rd.discard_buf))

\* the loop of read_logical_line after the first physical line:
\* [ok, err, line, more, rd, term].  `term` is not program state: it records
\* the reader as it was right after the terminator of the last physical line
\* that was made part of the logical line.
RECURSIVE LogicalLineLoop(_, _, _)
LogicalLineLoop(rd, logical_line_buf, term) ==
    LET Failed(r) ==
            [ok |-> FALSE, err |-> r.err, line |-> <<>>, more |-> FALSE, rd |-> r.rd,
             term |-> term]
        Discarded(d) == IF d.ok THEN LogicalLineLoop(d.rd, logical_line_buf, term) ELSE Failed(d)
        Continued(r) == IF r.ok THEN LogicalLineLoop(r.rd, r.buf, r.rd) ELSE Failed(r)
        Inspected(i) ==
            CASE i.kind = "NewProperty" ->
                    [ok |-> TRUE, err |-> <<>>, line |-> logical_line_buf, more |-> TRUE,
                     rd |-> i.rd, term |-> term]
              [] i.kind = "NoMoreContent" ->
                    [ok |-> TRUE, err |-> <<>>, line |-> logical_line_buf, more |-> FALSE,
                     rd |-> i.rd, term |-> term]
              [] i.kind = "Discard" -> Discarded(discard_line(i.rd))
              [] i.kind = "LogicalLine" -> Continued(read_physical_line(i.rd, logical_line_buf))
    IN Inspected(inspect_next_line(rd))

END_VCARD == <<"E", "N", "D", ":", "V", "C", "A", "R", "D">>

\* VCardReader::read_logical_line: [ok, err, line, more, rd, term]
read_logical_line(rd) ==
    LET FirstLine(r) ==
            IF ~r.ok /\ ~(r.err.kind = "Io" /\ r.buf = END_VCARD)
            THEN [ok |-> FALSE, err |-> r.err, line |-> <<>>, more |-> FALSE, rd |-> r.rd,
                  term |-> r.rd]
            ELSE LogicalLineLoop(r.rd, r.buf, r.rd)
    IN FirstLine(read_physical_line(rd, <<>>))

\* VCardReader::read_property: [ok, err, prop, more, rd, term]
read_property(rd) ==
    LET Parsed(l, p) ==
            IF ~p.ok
            THEN [ok |-> FALSE, err |-> p.err, prop |-> BlankProperty, more |-> l.more,
                  rd |-> l.rd, term |-> l.term]
            ELSE [ok |-> TRUE, err |-> <<>>, prop |-> p.val, more |-> l.more,
                  rd |-> l.rd, term |-> l.term]
        Assembled(l) ==
            IF ~l.ok
            THEN [ok |-> FALSE, err |-> l.err, prop |-> BlankProperty, more |-> FALSE,
                  rd |-> l.rd, term |-> l.term]
            ELSE Parsed(l, Property_from_str(l.line))
    IN Assembled(read_logical_line(rd))

(***************************************************************************)
(* containers.rs: MultiAltIDContainer, a map from alt-id to AltIDContainer *)
(* (a function whose domain is the set of keys)                            *)
(***************************************************************************)

EmptyMulti == [k \in {} |-> <<>>]

\* mutant: every value goes to the bucket of its own alt-id, a bucket that
\* exists being replaced
MultiAddReplacing(m, value) ==
    LET key == get_alt_id(value) IN
    [k \in DOMAIN m \cup {key} |-> IF k = key THEN <<value>> ELSE m[k]]

\* mutant: in a bucket that exists the value is put before the members
MultiAddFront(m, value) ==
    LET key == get_alt_id(value) IN
    IF key \in DOMAIN m
    THEN [m EXCEPT ![key] = <<value>> \o m[key]]
    ELSE [k \in DOMAIN m \cup {key} |-> IF k = key THEN <<value>> ELSE m[k]]

\* MultiAltIDContainer::add_value; the bucket's add_value cannot fail, its
\* first member having the key as alt-id
MultiAltIDContainer_add_value(m, value) ==
    LET key == get_alt_id(value) IN
    IF key \in DOMAIN m
    THEN [m EXCEPT ![key] = AltIDContainer_add_value(m[key], value).c]
    ELSE [k \in DOMAIN m \cup {key} |-> IF k = key THEN <<value>> ELSE m[k]]

(***************************************************************************)
(* model.rs: VCard; reader.rs: parse_vcard                                 *)
(***************************************************************************)

\* the VCard fields that are Option<T>, AltIDContainer<T>, MultiAltIDContainer<T>
SingleFields == {"kind", "gender", "prodid", "rev", "uid", "clientpidmap"}
AltFields == {"n", "bday", "anniversary"}
MultiFields == {"source", "xml", "fn_property", "nickname", "photo", "adr", "tel",
                "email", "impp", "lang", "tz", "geo", "title", "role", "logo", "org",
                "member", "related", "categories", "note", "sound", "url", "key",
                "fburl", "caluri", "caladuri"}

\* VCard { version, ..Default::default() }
NewVCard(version) ==
    [f \in {"version", "proprietary_properties"} \cup SingleFields \cup AltFields \cup MultiFields |->
        IF f = "version" THEN version
        ELSE IF f \in SingleFields THEN None
        ELSE IF f \in MultiFields THEN EmptyMulti
        ELSE <<>>]

\* the arms of the loop of parse_vcard: <<Property variant, VCard field>>
CardArms == <<
    <<"Source", "source">>, <<"Kind", "kind">>, <<"Xml", "xml">>, <<"FN", "fn_property">>,
    <<"N", "n">>, <<"NickName", "nickname">>, <<"Photo", "photo">>, <<"BDay", "bday">>,
    <<"Anniversary", "anniversary">>, <<"Gender", "gender">>, <<"Adr", "adr">>,
    <<"Tel", "tel">>, <<"Email", "email">>, <<"Impp", "impp">>, <<"Lang", "lang">>,
    <<"Tz", "tz">>, <<"Geo", "geo">>, <<"Title", "title">>, <<"Role", "role">>,
    <<"Logo", "logo">>, <<"Org", "org">>, <<"Member", "member">>, <<"Related", "related">>,
    <<"Categories", "categories">>, <<"Note", "note">>, <<"ProdId", "prodid">>,
    <<"Rev", "rev">>, <<"Sound", "sound">>, <<"Uid", "uid">>,
    <<"ClientPidMap", "clientpidmap">>, <<"Url", "url">>, <<"Key", "key">>,
    <<"FbUrl", "fburl">>, <<"CalUri", "caluri">>, <<"CalAdUri", "caladuri">>,
    <<"Proprietary", "proprietary_properties">> >>

FieldOf(type) == CardArms[CHOOSE i \in 1..Len(CardArms) : CardArms[i][1] = type][2]

InvalidCardinality(expected, property) ==
    [kind |-> "InvalidCardinality", expected |-> expected, property |-> property]
InvalidBeginProperty == [kind |-> "InvalidBeginProperty"]
InvalidVersionProperty == [kind |-> "InvalidVersionProperty"]
InvalidEndProperty == [kind |-> "InvalidEndProperty"]

\* add_single_value!
add_single_value(result, field, new_val) ==
    IF IsSome(result[field])
    THEN [ok |-> FALSE, err |-> InvalidCardinality(1, field), card |-> result]
    ELSE [ok |-> TRUE, err |-> <<>>, card |-> [result EXCEPT ![field] = Some(new_val)]]

\* an arm of the loop of parse_vcard for a property other than VERSION, BEGIN
\* and END: [ok, err, card]
AddProperty(result, prop) ==
    LET Added(field, r) ==
            IF r.res.ok THEN [ok |-> TRUE, err |-> <<>>, card |-> [result EXCEPT ![field] = r.c]]
            ELSE [ok |-> FALSE, err |-> r.res.err, card |-> result]
        Arm(field) ==
            IF field \in SingleFields THEN add_single_value(result, field, prop)
            ELSE IF field \in AltFields
            THEN Added(field, AltIDContainer_add_value(result[field], prop))
            ELSE IF field \in MultiFields
            THEN [ok |-> TRUE, err |-> <<>>,
                  card |-> [result EXCEPT ![field] = MultiAltIDContainer_add_value(@, prop)]]
            ELSE [ok |-> TRUE, err |-> <<>>,
                  card |-> [result EXCEPT !.proprietary_properties = Append(@, prop)]]
    IN Arm(FieldOf(prop.type))

VCARD == <<"V", "C", "A", "R", "D">>

\* mutant: any BEGIN opens a card, whatever its value
BeginStepAnyValue(r) ==
    IF ~r.ok THEN Some(r.err)
    ELSE IF r.prop.type # "Begin" THEN Some(InvalidBeginProperty)
    ELSE IF ~r.more THEN Some(InvalidVersionProperty)
    ELSE None

\* parse_vcard up to `if !more` after the first read_property: None when the
\* card goes on, or Some(the error returned)
BeginStep(r) ==
    IF ~r.ok THEN Some(r.err)
    ELSE IF r.prop.type # "Begin" \/ r.prop.value # VCARD THEN Some(InvalidBeginProperty)
    ELSE IF ~r.more THEN Some(InvalidVersionProperty)
    ELSE None

\* parse_vcard from the second read_property to `let mut result`
VersionStep(r) ==
    IF ~r.ok THEN Some(r.err)
    ELSE IF r.prop.type # "Version" THEN Some(InvalidVersionProperty)
    ELSE IF ~r.more THEN Some(InvalidEndProperty)
    ELSE None

\* mutant: a repeated VERSION or BEGIN is skipped
RepeatedFrameSkipped(result, property) ==
    [pc |-> "Accumulating", err |-> None, card |-> result]

\* the Property::Version and Property::Begin arms of the loop of parse_vcard
RepeatedFrame(result, property) ==
    [pc |-> "Failed", err |-> Some(InvalidCardinality(1, property)), card |-> result]

\* one turn of the loop of parse_vcard: [pc, err, card]
LoopStep(result, r) ==
    LET Kept(a) ==
            IF a.ok THEN [pc |-> "Accumulating", err |-> None, card |-> a.card]
            ELSE [pc |-> "Failed", err |-> Some(a.err), card |-> result]
    IN IF ~r.ok THEN [pc |-> "Failed", err |-> Some(r.err), card |-> result]
       ELSE CASE r.prop.type = "Version" -> RepeatedFrame(result, "VERSION")
              [] r.prop.type = "Begin" -> RepeatedFrame(result, "BEGIN")
              [] r.prop.type = "End" ->
                    IF r.prop.value # VCARD \/ r.more
                    THEN [pc |-> "Failed", err |-> Some(InvalidEndProperty), card |-> result]
                    ELSE [pc |-> "Done", err |-> None, card |-> result]
              [] OTHER -> Kept(AddProperty(result, r.prop))

(***************************************************************************)
(* The container under test: AltIDContainer::new() and then any sequence   *)
(* of add_value and get_prefered_value calls (containers.rs tests).        *)
(***************************************************************************)

MaxItems == 3

AltIds == {None, Some(<<>>), Some(<<"1">>)}
Prefs == {None, Some(10), Some(50)}
Items == [altid : AltIds, pref : Prefs, value : {<<"a">>, <<"b">>}]

NoCall == [op |-> "new", arg |-> <<>>, ret |-> <<>>]

\* no card is being read
Idle ==
    /\ written = <<>>
    /\ stream = <<>>
    /\ reader = NewReader(<<>>, DEFAULT_MAX_LINE_LENGTH)
    /\ pc = "Idle"
    /\ vcard = None
    /\ outcome = None
    /\ trace = <<>>
    /\ first = None

InitContainer ==
    /\ container = <<>>
    /\ accepted = <<>>
    /\ call = NoCall
    /\ Idle

AddValue(item) ==
    /\ Len(container) < MaxItems
    /\ LET r == AltIDContainer_add_value(container, item) IN
       /\ container' = r.c
       /\ accepted' = IF r.res.ok THEN Append(accepted, item) ELSE accepted
       /\ call' = [op |-> "add_value", arg |-> item, ret |-> r.res]
    /\ UNCHANGED rvars

GetPreferedValue ==
    /\ call' = [op |-> "get_prefered_value", arg |-> <<>>,
                ret |-> AltIDContainer_get_prefered_value(container)]
    /\ UNCHANGED <<container, accepted>>
    /\ UNCHANGED rvars

NextContainer ==
    \/ \E item \in Items : AddValue(item)
    \/ GetPreferedValue

SpecContainer == InitContainer /\ [][NextContainer]_vars

(***************************************************************************)
(* reader.rs: parse_vcard, one action per read_property call               *)
(***************************************************************************)

\* the bytes the reader has yet to deliver
Pending(rd) == SubSeq(rd.buf, 1, rd.n) \o rd.inner

\* what a read_property call returned, as the history keeps it; `rest` is the
\* input that followed the terminator of the logical line
Seen(r) ==
    [ok |-> r.ok, prop |-> r.prop, more |-> r.more,
     err |-> IF r.ok THEN None ELSE Some(r.err), rest |-> Pending(r.term)]

\* VCardReader::new(input) and the entry of parse_vcard
Start(ls, bytes) ==
    /\ written = ls
    /\ stream = bytes
    /\ reader = NewReader(bytes, DEFAULT_MAX_LINE_LENGTH)
    /\ pc = "ExpectBegin"
    /\ vcard = None
    /\ outcome = None
    /\ trace = <<>>
    /\ first = None
    /\ container = <<>>
    /\ accepted = <<>>
    /\ call = NoCall

\* parse_vcard: the first read_property and the checks on it
ParseBegin ==
    /\ pc = "ExpectBegin"
    /\ LET Step(r, e) ==
               /\ reader' = r.rd
               /\ trace' = Append(trace, Seen(r))
               /\ outcome' = e
               /\ pc' = IF e = None THEN "ExpectVersion" ELSE "Failed"
           Read(r) == Step(r, BeginStep(r))
       IN Read(read_property(reader))
    /\ UNCHANGED <<container, accepted, call, written, stream, vcard, first>>

\* parse_vcard: the second read_property, the checks on it, and `result`
ParseVersion ==
    /\ pc = "ExpectVersion"
    /\ LET Step(r, e) ==
               /\ reader' = r.rd
               /\ trace' = Append(trace, Seen(r))
               /\ outcome' = e
               /\ pc' = IF e = None THEN "Accumulating" ELSE "Failed"
               /\ vcard' = IF e = None THEN Some(NewVCard(r.prop.version)) ELSE vcard
           Read(r) == Step(r, VersionStep(r))
       IN Read(read_property(reader))
    /\ UNCHANGED <<container, accepted, call, written, stream, first>>

\* parse_vcard: one turn of the loop
ParseProperty ==
    /\ pc = "Accumulating"
    /\ LET Step(r, s) ==
               /\ reader' = r.rd
               /\ trace' = Append(trace, Seen(r))
               /\ outcome' = s.err
               /\ pc' = s.pc
               /\ vcard' = Some(s.card)
           Read(r) == Step(r, LoopStep(vcard[1], r))
       IN Read(read_property(reader))
    /\ UNCHANGED <<container, accepted, call, written, stream, first>>

(***************************************************************************)
(* Inputs: logical lines written one per physical line                     *)
(***************************************************************************)

\* each line followed by CRLF
RECURSIVE WriteLines(_)
WriteLines(ls) == IF Len(ls) = 0 THEN <<>> ELSE ls[1].text \o CRLF \o WriteLines(Tail(ls))

\* how the input ends after its last line: the last CRLF may be missing, and
\* bytes may follow it
Tails == {[crlf |-> TRUE, extra |-> <<>>], [crlf |-> FALSE, extra |-> <<>>],
          [crlf |-> TRUE, extra |-> <<"X">>], [crlf |-> TRUE, extra |-> <<SP, CR, LF>>]}

WriteInput(ls, tail) ==
    LET all == WriteLines(ls) IN
    IF tail.crlf \/ Len(all) = 0 THEN all \o tail.extra
    ELSE SubSeq(all, 1, Len(all) - 2)

AltLine(name, altid, text) == [name |-> name, altid |-> altid, text |-> text]
Line(name, text) == AltLine(name, <<>>, text)

BEGIN_LINE == Line("BEGIN", <<"B", "E", "G", "I", "N", ":", "V", "C", "A", "R", "D">>)
VERSION_LINE == Line("VERSION", <<"V", "E", "R", "S", "I", "O", "N", ":", "4", ".", "0">>)
END_LINE == Line("END", <<"E", "N", "D", ":", "V", "C", "A", "R", "D">>)

\* sequences over S of length at most n
SeqUpTo(S, n) == UNION {[1..k -> S] : k \in 0..n}

(***************************************************************************)
(* Cards whose every line is a BEGIN, a VERSION, an END or an FN           *)
(***************************************************************************)

MaxLines == 4

FrameLines == {BEGIN_LINE, Line("BEGIN", <<"b", "e", "g", "i", "n", ":", "v", "c", "a", "r", "d">>), VERSION_LINE,
               Line("FN", <<"F", "N", ":", "a">>), END_LINE, Line("END", <<"E", "N", "D", ":", "x">>)}

InitFrame ==
    \E ls \in SeqUpTo(FrameLines, MaxLines), tail \in Tails :
        Start(ls, WriteInput(ls, tail))

NextCard ==
    \/ ParseBegin
    \/ ParseVersion
    \/ ParseProperty

SpecFrame == InitFrame /\ [][NextCard]_vars

(***************************************************************************)
(* Cards of BEGIN, VERSION, a body of properties and END                   *)
(***************************************************************************)

MaxBody == 3

Framed(body) == <<BEGIN_LINE, VERSION_LINE>> \o body \o <<END_LINE>>

\* bodies of the properties that a card holds at most once, and an FN
SingleLines == {Line("KIND", <<"K", "I", "N", "D", ":", "i", "n", "d", "i", "v", "i", "d", "u", "a", "l">>), Line("KIND", <<"K", "I", "N", "D", ":", "o", "r", "g">>),
                Line("GENDER", <<"G", "E", "N", "D", "E", "R", ":", "M", ";">>), Line("PRODID", <<"P", "R", "O", "D", "I", "D", ":", "p">>),
                Line("REV", <<"R", "E", "V", ":", "r">>), Line("UID", <<"U", "I", "D", ":", "u">>),
                Line("CLIENTPIDMAP", <<"C", "L", "I", "E", "N", "T", "P", "I", "D", "M", "A", "P", ":", "1", ";", "u", "r", "n", ":", "x">>), Line("FN", <<"F", "N", ":", "a">>)}

InitSingle ==
    \E body \in SeqUpTo(SingleLines, MaxBody) :
        Start(Framed(body), WriteLines(Framed(body)))

SpecSingle == InitSingle /\ [][NextCard]_vars

\* bodies of properties that come in alternative representations
AltLines == {AltLine("N", <<>>, <<"N", ":", "a", ";", ";", ";", ";">>), AltLine("N", <<"1">>, <<"N", ";", "A", "L", "T", "I", "D", "=", "1", ":", "b", ";", ";", ";", ";">>),
             AltLine("N", <<>>, <<"N", ";", "A", "L", "T", "I", "D", "=", ":", "c", ";", ";", ";", ";">>),
             AltLine("BDAY", <<"1">>, <<"B", "D", "A", "Y", ";", "A", "L", "T", "I", "D", "=", "1", ":", "1">>), AltLine("BDAY", <<"2">>, <<"B", "D", "A", "Y", ";", "A", "L", "T", "I", "D", "=", "2", ":", "2">>),
             AltLine("ANNIVERSARY", <<>>, <<"A", "N", "N", "I", "V", "E", "R", "S", "A", "R", "Y", ":", "3">>),
             AltLine("ANNIVERSARY", <<"1">>, <<"A", "N", "N", "I", "V", "E", "R", "S", "A", "R", "Y", ";", "A", "L", "T", "I", "D", "=", "1", ":", "4">>),
             AltLine("FN", <<>>, <<"F", "N", ":", "a">>), AltLine("FN", <<"1">>, <<"F", "N", ";", "A", "L", "T", "I", "D", "=", "1", ":", "b">>),
             AltLine("FN", <<"1">>, <<"F", "N", ";", "A", "L", "T", "I", "D", "=", "1", ":", "c">>), AltLine("EMAIL", <<"2">>, <<"E", "M", "A", "I", "L", ";", "A", "L", "T", "I", "D", "=", "2", ":", "e">>)}

InitAlt ==
    \E body \in SeqUpTo(AltLines, MaxBody) :
        Start(Framed(body), WriteLines(Framed(body)))

SpecAlt == InitAlt /\ [][NextCard]_vars

(***************************************************************************)
(* One logical line, folded, read by read_property                         *)
(***************************************************************************)

MaxFolds == 2

FoldLines == {Line("FN", <<"F", "N", ":", "a", " ", "b">>), Line("N", <<"N", ":", "a", "b", ";", "c", ";", ";", ";">>), Line("TEL", <<"T", "E", "L", ";", "T", "Y", "P", "E", "=", "h", "o", "m", "e", ":", "1", "2">>),
              Line("X-A", <<"x", ".", "X", "-", "A", ":", "b">>)}

\* the text with CRLF and the fold's marker put in after every position of `at`
RECURSIVE Fold(_, _, _, _)
Fold(text, i, at, marker) ==
    IF i > Len(text) THEN <<>>
    ELSE <<text[i]>> \o (IF i \in at THEN CRLF \o <<marker[i]>> ELSE <<>>)
         \o Fold(text, i + 1, at, marker)

\* the folded line, its CRLF, and what follows it in the input
InitFold ==
    \E l \in FoldLines, follow \in {<<>>, WriteLines(<<END_LINE>>)} :
        \E at \in {a \in SUBSET (1..(Len(l.text) - 1)) : Cardinality(a) <= MaxFolds} :
            \E marker \in [at -> {SP, TAB}] :
                /\ written = <<l>>
                /\ stream = Fold(l.text, 1, at, marker) \o CRLF \o follow
                /\ reader = NewReader(stream, DEFAULT_MAX_LINE_LENGTH)
                /\ pc = "Folded"
                /\ call = [op |-> "fold", arg |-> at, ret |-> <<>>]
                /\ vcard = None
                /\ outcome = None
                /\ trace = <<>>
                /\ first = None
                /\ container = <<>>
                /\ accepted = <<>>

\* VCardReader::read_property on the folded input
ReadProperty ==
    /\ pc = "Folded"
    /\ LET Read(r) ==
               /\ reader' = r.rd
               /\ trace' = <<Seen(r)>>
       IN Read(read_property(reader))
    /\ pc' = "Read"
    /\ UNCHANGED <<container, accepted, call, written, stream, vcard, outcome, first>>

NextFold == ReadProperty

SpecFold == InitFold /\ [][NextFold]_vars

(***************************************************************************)
(* The serializer: the Display impl that #[vcard] writes for the property  *)
(* structs (vcard_macro), Display of Parameter, Pid, ValueDataType         *)
(* (parameter.rs), of the containers (containers.rs), of                   *)
(* ProprietaryProperty and of VCard (model.rs)                             *)
(***************************************************************************)

\* the structs of model.rs under #[vcard]: <<Property variant, the struct's
\* identifier, its fields that the macro has a statement for, in the order
\* of declaration>>
VcardStructs == <<
    <<"Kind", <<"K", "i", "n", "d">>, <<"group">>>>,
    <<"Gender", <<"G", "e", "n", "d", "e", "r">>, <<>>>>,
    <<"Version", <<"V", "e", "r", "s", "i", "o", "n">>, <<>>>>,
    <<"Source", <<"S", "o", "u", "r", "c", "e">>, <<"group", "pid", "altid", "mediatype">>>>,
    <<"FN", <<"F", "N">>, <<"group", "altid", "value_data_type", "type_param", "language", "pref">>>>,
    <<"N", <<"N">>, <<"altid", "language", "sort_as", "group">>>>,
    <<"NickName", <<"N", "i", "c", "k", "n", "a", "m", "e">>,
      <<"group", "altid", "value_data_type", "type_param", "language", "pref", "pid">>>>,
    <<"Photo", <<"P", "h", "o", "t", "o">>,
      <<"group", "altid", "value_data_type", "type_param", "mediatype", "pref", "pid">>>>,
    <<"BDay", <<"B", "D", "a", "y">>, <<"altid", "calscale", "value_data_type", "language">>>>,
    <<"Anniversary", <<"A", "n", "n", "i", "v", "e", "r", "s", "a", "r", "y">>, <<"altid", "calscale", "value_data_type">>>>,
    <<"Adr", <<"A", "d", "r">>,
      <<"group", "altid", "language", "geo", "tz", "pid", "pref", "value_data_type", "type_param">>>>,
    <<"Tel", <<"T", "e", "l">>, <<"value_data_type", "type_param", "pid", "pref", "altid">>>>,
    <<"Email", <<"E", "m", "a", "i", "l">>, <<"group", "altid", "pid", "pref", "value_data_type", "type_param">>>>,
    <<"Impp", <<"I", "m", "p", "p">>,
      <<"group", "altid", "pid", "pref", "mediatype", "value_data_type", "type_param">>>>,
    <<"Lang", <<"L", "a", "n", "g">>, <<"group", "altid", "pid", "pref", "value_data_type", "type_param">>>>,
    <<"Tz", <<"T", "z">>,
      <<"group", "altid", "pid", "pref", "value_data_type", "type_param", "mediatype">>>>,
    <<"Geo", <<"G", "e", "o">>,
      <<"group", "altid", "pid", "pref", "value_data_type", "type_param", "mediatype">>>>,
    <<"Title", <<"T", "i", "t", "l", "e">>,
      <<"group", "altid", "pid", "pref", "value_data_type", "type_param", "language">>>>,
    <<"Role", <<"R", "o", "l", "e">>,
      <<"group", "altid", "pid", "pref", "value_data_type", "type_param", "language">>>>,
    <<"Logo", <<"L", "o", "g", "o">>,
      <<"group", "altid", "pid", "pref", "value_data_type", "type_param", "language", "mediatype">>>>,
    <<"Org", <<"O", "r", "g">>,
      <<"group", "altid", "pid", "pref", "value_data_type", "type_param", "language", "sort_as">>>>,
    <<"Member", <<"M", "e", "m", "b", "e", "r">>, <<"group", "altid", "pid", "pref", "mediatype">>>>,
    <<"Related", <<"R", "e", "l", "a", "t", "e", "d">>,
      <<"group", "altid", "pid", "pref", "value_data_type", "type_param", "language", "mediatype">>>>,
    <<"Categories", <<"C", "a", "t", "e", "g", "o", "r", "i", "e", "s">>,
      <<"group", "altid", "pid", "pref", "value_data_type", "type_param">>>>,
    <<"Note", <<"N", "o", "t", "e">>,
      <<"group", "altid", "pid", "pref", "value_data_type", "type_param", "language">>>>,
    <<"ProdId", <<"P", "r", "o", "d", "I", "d">>, <<"group">>>>,
    <<"Rev", <<"R", "e", "v">>, <<"group">>>>,
    <<"Sound", <<"S", "o", "u", "n", "d">>,
      <<"group", "altid", "pid", "pref", "value_data_type", "type_param", "language", "mediatype">>>>,
    <<"Uid", <<"U", "i", "d">>, <<"group", "value_data_type">>>>,
    <<"ClientPidMap", <<"C", "l", "i", "e", "n", "t", "P", "i", "d", "M", "a", "p">>, <<"group">>>>,
    <<"Url", <<"V", "c", "a", "r", "d", "U", "R", "L">>,
      <<"group", "altid", "pid", "pref", "value_data_type", "type_param", "mediatype">>>>,
    <<"FbUrl", <<"F", "b", "U", "R", "L">>,
      <<"group", "altid", "pid", "pref", "value_data_type", "type_param", "mediatype">>>>,
    <<"CalAdUri", <<"C", "a", "l", "A", "d", "U", "R", "I">>,
      <<"group", "altid", "pid", "pref", "value_data_type", "type_param", "mediatype">>>>,
    <<"CalUri", <<"C", "a", "l", "U", "R", "I">>,
      <<"group", "altid", "pid", "pref", "value_data_type", "type_param", "mediatype">>>>,
    <<"Key", <<"K", "e", "y">>,
      <<"group", "altid", "pid", "pref", "value_data_type", "type_param", "mediatype">>>>,
    <<"Xml", <<"X", "m", "l">>, <<"altid", "group">>>>>>

\* AsRefStr of VersionValue, KindValue, Sex and ValueDataType: the strum
\* name of the variant, and the variant's identifier where it has none
VersionValue_as_ref(v) == IF v = "V3" THEN <<"3", ".", "0">> ELSE <<"4", ".", "0">>

KindValue_as_ref(k) ==
    CASE k.tag = "Individual" -> <<"i", "n", "d", "i", "v", "i", "d", "u", "a", "l">>
      [] k.tag = "Group" -> <<"g", "r", "o", "u", "p">>
      [] k.tag = "Org" -> <<"o", "r", "g">>
      [] k.tag = "Location" -> <<"l", "o", "c", "a", "t", "i", "o", "n">>
      [] OTHER -> <<"P", "r", "o", "p", "r", "i", "e", "t", "a", "r", "y">>

Sex_as_ref(s) ==
    CASE s = "Male" -> <<"m">>
      [] s = "Female" -> <<"f">>
      [] s = "Other" -> <<"o">>
      [] s = "None" -> <<"n">>
      [] OTHER -> <<"u">>

ValueDataType_as_ref(v) ==
    IF v.tag = "Proprietary" THEN <<"P", "r", "o", "p", "r", "i", "e", "t", "a", "r", "y">>
    ELSE ValueDataTypes[CHOOSE i \in 1..Len(ValueDataTypes) : ValueDataTypes[i][1] = v.tag][2]

\* Display for ValueDataType
ValueDataType_fmt(v) == IF v.tag = "Proprietary" THEN v.s ELSE ValueDataType_as_ref(v)

\* Display for Pid
Pid_fmt(p) ==
    IF IsSome(p.second_digit)
    THEN DecimalText(p.first_digit) \o <<".">> \o DecimalText(p.second_digit[1])
    ELSE DecimalText(p.first_digit)

\* the macro's statement for type_param: one ;TYPE= for every tag
RECURSIVE TypeStmt(_)
TypeStmt(types) ==
    IF Len(types) = 0 THEN <<>> ELSE <<";", "T", "Y", "P", "E", "=">> \o types[1] \o TypeStmt(Tail(types))

\* the statement the macro pushes for the field `ident` (none for `group` and
\* for a field it does not know), run on `self`
FieldStmt(self, ident) ==
    IF ident = "group" \/ ~IsSome(self[ident]) THEN <<>>
    ELSE CASE ident = "altid" -> <<";", "A", "L", "T", "I", "D", "=">> \o self.altid[1]
           [] ident = "language" -> <<";", "L", "A", "N", "G", "U", "A", "G", "E", "=">> \o self.language[1]
           [] ident = "value_data_type" -> <<";", "V", "A", "L", "U", "E", "=">> \o ValueDataType_as_ref(self.value_data_type[1])
           [] ident = "pref" -> <<";", "P", "R", "E", "F", "=">> \o DecimalText(self.pref[1])
           [] ident = "pid" -> <<";", "P", "I", "D", "=">> \o Pid_fmt(self.pid[1])
           [] ident = "type_param" -> TypeStmt(self.type_param[1])
           [] ident = "mediatype" -> <<";", "M", "E", "D", "I", "A", "T", "Y", "P", "E", "=">> \o self.mediatype[1]
           [] ident = "calscale" -> <<";", "C", "A", "L", "S", "C", "A", "L", "E", "=">> \o self.calscale[1]
           [] ident = "sort_as" ->
                <<";", "S", "O", "R", "T", "-", "A", "S", "=">> \o <<"\"">> \o join(self.sort_as[1], <<",">>) \o <<"\"">>
           [] ident = "geo" -> <<";", "G", "E", "O", "=">> \o self.geo[1]
           [] ident = "tz" -> <<";", "T", "Z", "=">> \o self.tz[1]
           [] OTHER -> <<>>

\* #(#stmts)*: the statements in the order of the struct's fields
RECURSIVE Stmts(_, _)
Stmts(self, idents) ==
    IF Len(idents) = 0 THEN <<>> ELSE FieldStmt(self, idents[1]) \o Stmts(self, Tail(idents))

\* grp_stmt: the group and a dot, if the struct has the field and it is set,
\* then the name
GrpStmt(self, struct_name, idents) ==
    IF (\E i \in 1..Len(idents) : idents[i] = "group") /\ IsSome(self.group)
    THEN self.group[1] \o <<".">> \o struct_name
    ELSE struct_name

\* value_stmt, chosen by the upper-cased name of the struct
ValueStmt(self, struct_name) ==
    CASE struct_name = <<"O", "R", "G">> -> <<":">> \o join(self.items, <<";">>) \o CRLF
      [] struct_name \in {<<"C", "A", "T", "E", "G", "O", "R", "I", "E", "S">>, <<"N", "I", "C", "K", "N", "A", "M", "E">>} ->
            <<":">> \o join(self.items, <<",">>) \o CRLF
      [] struct_name = <<"A", "D", "R">> ->
            <<":">> \o join([i \in 1..7 |-> join(self.positions[i], <<",">>)], <<";">>) \o CRLF
      [] struct_name = <<"N">> ->
            <<":">> \o join([i \in 1..5 |-> join(self.positions[i], <<",">>)], <<";">>) \o CRLF
      [] struct_name = <<"G", "E", "N", "D", "E", "R">> ->
            <<":">> \o (IF IsSome(self.sex) THEN Sex_as_ref(self.sex[1]) ELSE <<>>)
            \o (IF IsSome(self.identity_component)
                THEN <<";">> \o self.identity_component[1] ELSE <<>>)
            \o CRLF
      [] struct_name \in {<<"V", "E", "R", "S", "I", "O", "N">>, <<"K", "I", "N", "D">>} ->
            <<":">> \o (IF self.type = "Version" THEN VersionValue_as_ref(self.version)
                        ELSE KindValue_as_ref(self.kind))
            \o CRLF
      [] OTHER -> <<":">> \o self.value \o CRLF

\* mutant: the statements are run in one order for every struct
StructFmtOneOrder(self) ==
    LET Declared(idents, f) == \E i \in 1..Len(idents) : idents[i] = f
        Write(struct_name, idents) ==
            GrpStmt(self, struct_name, idents)
            \o Stmts(self, SelectSeq(<<"altid", "language", "value_data_type", "pref", "pid",
                                      "type_param", "mediatype", "calscale", "sort_as", "geo",
                                      "tz">>, LAMBDA f : Declared(idents, f)))
            \o ValueStmt(self, struct_name)
        Of(def) == Write(to_uppercase(def[2]), def[3])
    IN Of(VcardStructs[CHOOSE i \in 1..Len(VcardStructs) : VcardStructs[i][1] = self.type])

\* Display for a struct under #[vcard]
Struct_fmt(self) ==
    LET Write(struct_name, idents) ==
            GrpStmt(self, struct_name, idents) \o Stmts(self, idents)
            \o ValueStmt(self, struct_name)
        Of(def) == Write(to_uppercase(def[2]), def[3])
    IN Of(VcardStructs[CHOOSE i \in 1..Len(VcardStructs) : VcardStructs[i][1] = self.type])

\* Display for Parameter
Parameter_fmt(param) ==
    CASE param.kind = "Label" -> <<"L", "A", "B", "E", "L", "=">> \o param.v
      [] param.kind = "Language" -> <<"L", "A", "N", "G", "U", "A", "G", "E", "=">> \o param.v
      [] param.kind = "Value" -> <<"V", "A", "L", "U", "E", "=">> \o ValueDataType_fmt(param.v)
      [] param.kind = "Pref" -> <<"P", "R", "E", "F", "=">> \o DecimalText(param.v)
      [] param.kind = "AltId" -> <<"A", "L", "T", "I", "D", "=">> \o param.v
      [] param.kind = "Pid" -> <<"P", "I", "D", "=">> \o Pid_fmt(param.v)
      [] param.kind = "Type" -> <<"T", "Y", "P", "E", "=">> \o join(param.v, <<",">>)
      [] param.kind = "MediaType" -> <<"M", "E", "D", "I", "A", "T", "Y", "P", "E", "=">> \o param.v
      [] param.kind = "CalScale" -> <<"C", "A", "L", "S", "C", "A", "L", "E", "=">> \o param.v
      [] param.kind = "SortAs" -> <<"S", "O", "R", "T", "-", "A", "S", "=">> \o join(param.v, <<",">>)
      [] param.kind = "Geo" -> <<"G", "E", "O", "=">> \o param.v
      [] param.kind = "TimeZone" -> <<"T", "Z", "=">> \o param.v
      [] param.kind = "Proprietary" -> param.v

\* `for param in self.parameters.iter() { write!(f, ";{}", ...) }`
RECURSIVE ParametersFmt(_)
ParametersFmt(parameters) ==
    IF Len(parameters) = 0 THEN <<>>
    ELSE <<";">> \o Parameter_fmt(parameters[1]) \o ParametersFmt(Tail(parameters))

\* Display for ProprietaryProperty
ProprietaryProperty_fmt(self) ==
    (IF IsSome(self.group) THEN self.group[1] \o <<".">> ELSE <<>>)
    \o self.name \o ParametersFmt(self.parameters) \o <<":">> \o self.value \o CRLF

\* Display for the payload of a Property
Property_fmt(self) ==
    IF self.type = "Proprietary" THEN ProprietaryProperty_fmt(self) ELSE Struct_fmt(self)

\* Display for AltIDContainer, and the loop over proprietary_properties
RECURSIVE AltIDContainer_fmt(_)
AltIDContainer_fmt(c) ==
    IF Len(c) = 0 THEN <<>> ELSE Property_fmt(c[1]) \o AltIDContainer_fmt(Tail(c))

\* Display for MultiAltIDContainer: `values` is self.0.values(), the keys of
\* the HashMap in the order the map happens to iterate them
RECURSIVE MultiAltIDContainer_fmt(_, _)
MultiAltIDContainer_fmt(m, values) ==
    IF Len(values) = 0 THEN <<>>
    ELSE AltIDContainer_fmt(m[values[1]]) \o MultiAltIDContainer_fmt(m, Tail(values))

\* the fields of VCard in the order Display for VCard writes them, between
\* the version and the proprietary properties
DisplayOrder == <<
    "source", "kind", "xml", "fn_property", "n", "nickname", "photo", "bday",
    "anniversary", "gender", "adr", "tel", "email", "impp", "lang", "tz", "geo",
    "title", "role", "logo", "org", "member", "related", "categories", "note",
    "prodid", "rev", "uid", "clientpidmap", "sound", "url", "key", "fburl",
    "caluri", "caladuri">>

\* the sequences that hold every member of the set S once
Orderings(S) ==
    {p \in [1..Cardinality(S) -> S] : \A i, j \in 1..Cardinality(S) : i # j => p[i] # p[j]}

\* the keys of the map m in the order `hash` ranks them
ValuesOf(m, hash) == SelectSeq(hash, LAMBDA k : k \in DOMAIN m)

\* every alt-id key of the card, and its maps that hold more than one key
AllKeys(self) == UNION {DOMAIN self[f] : f \in MultiFields}
Crowded(self) == {f \in MultiFields : Cardinality(DOMAIN self[f]) > 1}

\* the iteration orders the HashMaps of the card can have: one per map with
\* more than one key
IterationOrders(self) == [Crowded(self) -> Orderings(AllKeys(self))]

\* write_vcard_property, and `fmt` of a container
FieldFmt(self, field, hashes) ==
    IF field \in SingleFields
    THEN (IF IsSome(self[field]) THEN Property_fmt(self[field][1]) ELSE <<>>)
    ELSE IF field \in AltFields THEN AltIDContainer_fmt(self[field])
    ELSE IF field \in DOMAIN hashes
    THEN MultiAltIDContainer_fmt(self[field], ValuesOf(self[field], hashes[field]))
    ELSE MultiAltIDContainer_fmt(self[field], [i \in 1..Cardinality(DOMAIN self[field]) |->
                                                    CHOOSE k \in DOMAIN self[field] : TRUE])

RECURSIVE FieldsFmt(_, _, _)
FieldsFmt(self, fields, hashes) ==
    IF Len(fields) = 0 THEN <<>>
    ELSE FieldFmt(self, fields[1], hashes) \o FieldsFmt(self, Tail(fields), hashes)

\* Display for VCard
VCard_fmt(self, hashes) ==
    <<"B", "E", "G", "I", "N", ":", "V", "C", "A", "R", "D">> \o CRLF
    \o Struct_fmt([BlankProperty EXCEPT !.type = "Version", !.version = self.version])
    \o FieldsFmt(self, DisplayOrder, hashes)
    \o AltIDContainer_fmt(self.proprietary_properties)
    \o <<"E", "N", "D", ":", "V", "C", "A", "R", "D">> \o CRLF

(***************************************************************************)
(* Round trip: a card is decoded, written with Display, and decoded again  *)
(***************************************************************************)

MaxCard == 2

RoundTripLines == {
    Line("FN", <<"F", "N", ":", "a">>),
    AltLine("FN", <<"1">>, <<"F", "N", ";", "A", "L", "T", "I", "D", "=", "1", ";", "L", "A", "N", "G", "U", "A", "G", "E", "=", "e", "n", ":", "b">>),
    Line("FN", <<"g", ".", "F", "N", ";", "P", "R", "E", "F", "=", "2", ";", "T", "Y", "P", "E", "=", "x", ":", "c">>),
    Line("N", <<"N", ":", "a", ";", "b", ",", "c", ";", ";", ";">>),
    Line("N", <<"N", ";", "S", "O", "R", "T", "-", "A", "S", "=", "x", ":", "a", ";", ";", ";", ";">>),
    Line("NICKNAME", <<"N", "I", "C", "K", "N", "A", "M", "E", ":", "a", ",", "b">>),
    Line("NICKNAME", <<"N", "I", "C", "K", "N", "A", "M", "E", ":", "a", "\\", ",", "b">>),
    Line("TEL", <<"T", "E", "L", ";", "T", "Y", "P", "E", "=", "h", "o", "m", "e", ",", "w", "o", "r", "k", ";", "P", "R", "E", "F", "=", "1", ":", "1", "2">>),
    Line("EMAIL", <<"E", "M", "A", "I", "L", ";", "P", "I", "D", "=", "1", ".", "2", ";", "V", "A", "L", "U", "E", "=", "t", "e", "x", "t", ":", "e">>),
    Line("BDAY", <<"B", "D", "A", "Y", ";", "V", "A", "L", "U", "E", "=", "d", "a", "t", "e", ":", "1">>),
    Line("ORG", <<"O", "R", "G", ":", "a", ";", "b">>),
    Line("NOTE", <<"N", "O", "T", "E", ":", "n", "\\", ",", "m">>),
    Line("KIND", <<"K", "I", "N", "D", ":", "o", "r", "g">>),
    Line("GENDER", <<"G", "E", "N", "D", "E", "R", ":", "M", ";", "x">>),
    Line("UID", <<"U", "I", "D", ":", "u">>),
    Line("X-A", <<"X", "-", "A", ";", "P", "R", "E", "F", "=", "1", ":", "v">>),
    Line("X-A", <<"x", ".", "X", "-", "A", ";", "F", "O", "O", "=", "b", "a", "r", ":", "v">>)}

InitRoundTrip ==
    \E body \in SeqUpTo(RoundTripLines, MaxCard) :
        Start(Framed(body), WriteLines(Framed(body)))

\* vcard.to_string() on the card parse_vcard returned, and VCardReader::new
\* on the text
WriteCard ==
    /\ pc = "Done"
    /\ first = None
    /\ \E hashes \in IterationOrders(vcard[1]) :
          LET Reopen(text) ==
                  /\ stream' = text
                  /\ reader' = NewReader(text, DEFAULT_MAX_LINE_LENGTH)
          IN Reopen(VCard_fmt(vcard[1], hashes))
    /\ first' = vcard
    /\ vcard' = None
    /\ outcome' = None
    /\ trace' = <<>>
    /\ pc' = "ExpectBegin"
    /\ UNCHANGED <<container, accepted, call, written>>

NextRoundTrip == ParseBegin \/ ParseVersion \/ ParseProperty \/ WriteCard

SpecRoundTrip == InitRoundTrip /\ [][NextRoundTrip]_vars

(***************************************************************************)
(* containers.rs: MultiAltIDContainer::get_prefered_value.  In this        *)
(* specification `container` is the map of a MultiAltIDContainer.          *)
(***************************************************************************)

\* mutant: the representative of the first bucket iterated is returned
MultiPreferedFirst(m, values, prefered_item) ==
    IF Len(values) = 0 THEN prefered_item
    ELSE AltIDContainer_get_prefered_value(m[values[1]])

\* the loop of MultiAltIDContainer::get_prefered_value over self.0.iter(),
\* `values` being the keys yet to come in the order the HashMap iterates them
RECURSIVE MultiPreferedScan(_, _, _)
MultiPreferedScan(m, values, prefered_item) ==
    IF Len(values) = 0 THEN prefered_item
    ELSE LET Rest(p) == MultiPreferedScan(m, Tail(values), p)
             Pick(cpi) ==
                 IF cpi = None THEN Rest(prefered_item)
                 ELSE IF prefered_item = None THEN Rest(cpi)
                 ELSE IF get_pref(prefered_item[1]) > get_pref(cpi[1]) THEN Rest(cpi)
                 ELSE Rest(prefered_item)
         IN Pick(AltIDContainer_get_prefered_value(m[values[1]]))

InitMulti ==
    /\ container = EmptyMulti
    /\ accepted = <<>>
    /\ call = NoCall
    /\ Idle

\* MultiAltIDContainer::add_value
MultiAddValue(item) ==
    /\ Len(accepted) < MaxItems
    /\ container' = MultiAltIDContainer_add_value(container, item)
    /\ accepted' = Append(accepted, item)
    /\ call' = [op |-> "multi_add_value", arg |-> item, ret |-> <<>>]
    /\ UNCHANGED rvars

\* MultiAltIDContainer::get_prefered_value, the map iterating in any order
MultiGetPreferedValue ==
    /\ \E values \in Orderings(DOMAIN container) :
          call' = [op |-> "multi_get_prefered_value", arg |-> values,
                   ret |-> MultiPreferedScan(container, values, None)]
    /\ UNCHANGED <<container, accepted>>
    /\ UNCHANGED rvars

NextMulti ==
    \/ \E item \in {i \in Items : i.value = <<"a">>} : MultiAddValue(item)
    \/ MultiGetPreferedValue

SpecMulti == InitMulti /\ [][NextMulti]_vars

(***************************************************************************)
(* read_property under a line limit, at the end of the stream, and after a *)
(* line that does not decode                                               *)
(***************************************************************************)

\* first lines: short ones around the small limits, END lines, an empty
\* line, and lines Property::from_str rejects
FirstLines == {
    Line("FN", <<"F", "N", ":", "a">>), Line("FN", <<"F", "N", ":", "a", "b">>), Line("FN", <<"F", "N", ":", "a", "b", "c">>),
    Line("END", <<"E", "N", "D", ":", "V", "C", "A", "R", "D">>), Line("END", <<"E", "N", "D", ":", "V", "C", "A", "R">>), Line("", <<>>),
    Line("BAD", <<"B", "A", "D", ":", "a">>), Line("VERSION", <<"V", "E", "R", "S", "I", "O", "N", ":", "5">>), Line("GENDER", <<"G", "E", "N", "D", "E", "R", ":", "z", ";">>),
    Line("GENDER", <<"G", "E", "N", "D", "E", "R", ":", "m">>), Line("FN", <<"F", "N", ";", "V", "A", "L", "U", "E", "=", "q", ":", "a">>), Line("FN", <<"F", "N", ";", "P", "R", "E", "F", "=", "x", ":", "a">>),
    Line("FN", <<"F", "N", ";", "x", ":", "a">>)}

\* what follows the bytes of the first line: `closed` tells that the line
\* and everything that hangs on it ends with CRLF, so that further lines can
\* follow
Endings == {
    [name |-> "crlf", bytes |-> CRLF, closed |-> TRUE],
    [name |-> "eof", bytes |-> <<>>, closed |-> FALSE],
    [name |-> "cr", bytes |-> <<CR>>, closed |-> FALSE],
    [name |-> "marker", bytes |-> CRLF \o <<SP>>, closed |-> FALSE],
    [name |-> "continuation", bytes |-> CRLF \o <<SP, "z">>, closed |-> FALSE],
    [name |-> "discarded", bytes |-> CRLF \o <<SP, TAB, "1", "2", "3">> \o CRLF, closed |-> TRUE],
    [name |-> "discarding", bytes |-> CRLF \o <<SP, SP, "z">>, closed |-> FALSE]}

Limits == {4, 5, DEFAULT_MAX_LINE_LENGTH}

\* VCardReader::new_with_logical_line_limit on the first line, folded at most
\* once, its ending, and the lines after it
InitLines ==
    \E l \in FirstLines, ending \in Endings, limit \in Limits :
        \E follow \in {<<>>, <<Line("FN", <<"F", "N", ":", "b">>)>>, <<Line("TEL", <<"T", "E", "L", ":", "1">>), END_LINE>>} :
            \E at \in {a \in SUBSET (1..(Len(l.text) - 1)) : Cardinality(a) <= 1} :
                \E marker \in [at -> {SP, TAB}] :
                    /\ ending.closed \/ follow = <<>>
                    /\ written = <<l>> \o follow
                    /\ stream = Fold(l.text, 1, at, marker) \o ending.bytes \o WriteLines(follow)
                    /\ reader = NewReader(stream, limit)
                    /\ pc = "Folded"
                    /\ call = [op |-> "lines", arg |-> [at |-> at, ending |-> ending.name],
                               ret |-> <<>>]
                    /\ vcard = None
                    /\ outcome = None
                    /\ trace = <<>>
                    /\ first = None
                    /\ container = <<>>
                    /\ accepted = <<>>

\* the next call of VCardReader::read_property on the same reader
ReadNextProperty ==
    /\ pc = "Read"
    /\ LET Read(r) ==
               /\ reader' = r.rd
               /\ trace' = Append(trace, Seen(r))
       IN Read(read_property(reader))
    /\ pc' = "ReadNext"
    /\ UNCHANGED <<container, accepted, call, written, stream, vcard, outcome, first>>

NextLines == ReadProperty \/ ReadNextProperty

SpecLines == InitLines /\ [][NextLines]_vars

(***************************************************************************)
(* Property::from_str on one content line, and Display of what it returns  *)
(***************************************************************************)

MaxParams == 2

DecodeNames == {<<"F", "N">>, <<"T", "E", "L">>, <<"N">>, <<"G", "E", "N", "D", "E", "R">>, <<"C", "L", "I", "E", "N", "T", "P", "I", "D", "M", "A", "P">>, <<"S", "O", "U", "R", "C", "E">>, <<"X", "-", "A">>, <<"x", "-", "b">>}

\* parameters as they are written on a line: the key, the value, and the
\* variant of Parameter that Parameter::from_str makes of the key
DecodeParams == <<
    [key |-> <<"A", "L", "T", "I", "D">>, val |-> <<"1">>, kind |-> "AltId"],
    [key |-> <<"L", "A", "N", "G", "U", "A", "G", "E">>, val |-> <<"e", "n">>, kind |-> "Language"],
    [key |-> <<"V", "A", "L", "U", "E">>, val |-> <<"t", "e", "x", "t">>, kind |-> "Value"],
    [key |-> <<"P", "R", "E", "F">>, val |-> <<"1">>, kind |-> "Pref"],
    [key |-> <<"P", "I", "D">>, val |-> <<"1", ".", "2">>, kind |-> "Pid"],
    [key |-> <<"T", "Y", "P", "E">>, val |-> <<"a">>, kind |-> "Type"],
    [key |-> <<"M", "E", "D", "I", "A", "T", "Y", "P", "E">>, val |-> <<"m">>, kind |-> "MediaType"],
    [key |-> <<"C", "A", "L", "S", "C", "A", "L", "E">>, val |-> <<"c">>, kind |-> "CalScale"],
    [key |-> <<"S", "O", "R", "T", "-", "A", "S">>, val |-> <<"s">>, kind |-> "SortAs"],
    [key |-> <<"G", "E", "O">>, val |-> <<"g">>, kind |-> "Geo"],
    [key |-> <<"T", "Z">>, val |-> <<"t">>, kind |-> "TimeZone"],
    [key |-> <<"L", "A", "B", "E", "L">>, val |-> <<"l">>, kind |-> "Proprietary"],
    [key |-> <<"F", "O", "O">>, val |-> <<"b", "a", "r">>, kind |-> "Proprietary"]>>

DecodeValues == {<<"a">>, <<"h", "t", "t", "p", ":", "/", "/", "a">>, <<"1", ";", "u", "r", "n", ":", "u", "u", "i", "d", ":", "a", "b", "c">>, <<"1">>, <<";">>, <<"m", ";", "t", "r", "a", "n", "s">>, <<"z", ";", "x">>, <<"m">>,
                 <<"o", ";", "a", ";", "b">>, <<"M", ";">>}

\* the parameters of a line as text: ;KEY=value for each
RECURSIVE ParamsText(_)
ParamsText(params) ==
    IF Len(params) = 0 THEN <<>>
    ELSE <<";">> \o params[1].key \o <<"=">> \o params[1].val \o ParamsText(Tail(params))

\* a content line of a name, at most MaxParams of the parameters and a value
InitDecode ==
    \E name \in DecodeNames, value \in DecodeValues :
        \E at \in {a \in SUBSET (1..Len(DecodeParams)) : Cardinality(a) <= MaxParams} :
            LET params == [j \in 1..Cardinality(at) |->
                              DecodeParams[CHOOSE i \in at : Cardinality({k \in at : k < i}) = j - 1]]
            IN /\ written = <<Line("", name \o ParamsText(params) \o <<":">> \o value)>>
               /\ call = [op |-> "line", arg |-> [name |-> name, params |-> params, value |-> value],
                          ret |-> <<>>]
               /\ stream = <<>>
               /\ reader = NewReader(<<>>, DEFAULT_MAX_LINE_LENGTH)
               /\ pc = "Line"
               /\ vcard = None
               /\ outcome = None
               /\ trace = <<>>
               /\ first = None
               /\ container = <<>>
               /\ accepted = <<>>

\* Property::from_str(line)
Decode ==
    /\ pc = "Line"
    /\ call' = [call EXCEPT !.op = "from_str", !.ret = Property_from_str(written[1].text)]
    /\ pc' = "Decoded"
    /\ UNCHANGED <<container, accepted, written, stream, reader, vcard, outcome, trace, first>>

\* to_string() of the decoded property
Display ==
    /\ pc = "Decoded"
    /\ call.ret.ok
    /\ stream' = Property_fmt(call.ret.val)
    /\ pc' = "Displayed"
    /\ UNCHANGED <<container, accepted, call, written, reader, vcard, outcome, trace, first>>

NextDecode == Decode \/ Display

SpecDecode == InitDecode /\ [][NextDecode]_vars

(***************************************************************************)
(* model.rs: a property struct built by hand, as the tests of model.rs do  *)
(* (N::default(), then assignments to its fields), then to_string(), then  *)
(* read_property on the text                                               *)
(***************************************************************************)

MaxSet == 2

\* every field of the struct of the variant `type` that holds a parameter or
\* the group: those the macro knows, and `label` of Adr
StructFields(type) ==
    LET Of(def) == {def[3][i] : i \in 1..Len(def[3])} \cup (IF type = "Adr" THEN {"label"} ELSE {})
    IN Of(VcardStructs[CHOOSE i \in 1..Len(VcardStructs) : VcardStructs[i][1] = type])

\* the values the fields are set to
FieldValues ==
    [group |-> <<"f", "o", "o">>, altid |-> <<"a", "s", "d", "f">>, language |-> <<"e", "n">>,
     value_data_type |-> [tag |-> "Text", s |-> <<>>], pref |-> 1,
     pid |-> [first_digit |-> 1, second_digit |-> Some(2)],
     type_param |-> <<<<"h", "o", "m", "e">>>>, mediatype |-> <<"m">>, calscale |-> <<"c">>,
     sort_as |-> <<<<"f", "o", "o">>, <<"b", "a", "r">>>>, geo |-> <<"g">>, tz |-> <<"t">>, label |-> <<"l">>]

DisplayValues == {<<>>, <<"a">>}

\* the struct of the variant `type` with every Option at None and the payload
\* empty (the Default of the struct where it has one) or made of v
Build(type, v) ==
    [BlankProperty EXCEPT
        !.type = type,
        !.value = IF type \in {"NickName", "Categories", "Org", "N", "Adr", "Kind", "Gender", "Version"}
                  THEN <<>> ELSE v,
        !.items = IF type \in {"NickName", "Categories", "Org"} /\ v # <<>> THEN <<v>> ELSE <<>>,
        !.positions = IF type \in {"N", "Adr"}
                      THEN [i \in 1..(IF type = "N" THEN 5 ELSE 7) |->
                                IF i = 1 /\ v # <<>> THEN <<v>> ELSE <<>>]
                      ELSE <<>>,
        !.version = IF type = "Version" THEN "V4" ELSE "",
        !.kind = IF type = "Kind" THEN [tag |-> "Individual", s |-> <<>>] ELSE NoKind,
        !.identity_component = IF type = "Gender" /\ v # <<>> THEN Some(v) ELSE None,
        !.pid_digit = IF type = "ClientPidMap" /\ v # <<>> THEN 1 ELSE 0]

InitDisplay ==
    \E i \in 1..Len(VcardStructs), v \in DisplayValues :
        /\ call = [op |-> "new", arg |-> Build(VcardStructs[i][1], v), ret |-> <<>>]
        /\ stream = <<>>
        /\ written = <<>>
        /\ reader = NewReader(<<>>, DEFAULT_MAX_LINE_LENGTH)
        /\ pc = "Built"
        /\ vcard = None
        /\ outcome = None
        /\ trace = <<>>
        /\ first = None
        /\ container = <<>>
        /\ accepted = <<>>

\* `e.group = Some("foo".into())`: an assignment to a field that is None
SetField ==
    /\ pc = "Built"
    /\ \E f \in StructFields(call.arg.type) :
          /\ call.arg[f] = None
          /\ Cardinality({g \in StructFields(call.arg.type) : call.arg[g] # None}) < MaxSet
          /\ call' = [call EXCEPT !.op = "set", !.arg = [@ EXCEPT ![f] = Some(FieldValues[f])]]
    /\ UNCHANGED <<container, accepted, written, stream, reader, pc, vcard, outcome, trace, first>>

\* to_string() of the struct
to_string ==
    /\ pc = "Built"
    /\ stream' = Property_fmt(call.arg)
    /\ pc' = "Displayed"
    /\ UNCHANGED <<container, accepted, call, written, reader, vcard, outcome, trace, first>>

\* VCardReader::new on the text and read_property
ReadWritten ==
    /\ pc = "Displayed"
    /\ LET Returned(r) ==
               /\ call' = [call EXCEPT !.op = "read_property",
                                       !.ret = IF r.ok THEN Ok(r.prop) ELSE Err(r.err)]
               /\ reader' = r.rd
       IN Returned(read_property(NewReader(stream, DEFAULT_MAX_LINE_LENGTH)))
    /\ pc' = "Reparsed"
    /\ UNCHANGED <<container, accepted, written, stream, vcard, outcome, trace, first>>

NextDisplay == SetField \/ to_string \/ ReadWritten

SpecDisplay == InitDisplay /\ [][NextDisplay]_vars

(***************************************************************************)
(* reader.rs: read_physical_line on a reader that was just made            *)
(***************************************************************************)

MaxBytes == 5

PhysicalBytes == {"a", CR, LF}

InitPhysical ==
    \E bytes \in SeqUpTo(PhysicalBytes, MaxBytes) :
        /\ stream = bytes
        /\ reader = NewReader(bytes, DEFAULT_MAX_LINE_LENGTH)
        /\ call = NoCall
        /\ written = <<>>
        /\ pc = "Opened"
        /\ vcard = None
        /\ outcome = None
        /\ trace = <<>>
        /\ first = None
        /\ container = <<>>
        /\ accepted = <<>>

\* self.read_physical_line(&mut buf) with an empty buf
ReadPhysicalLine ==
    /\ pc = "Opened"
    /\ LET Returned(r) ==
               /\ call' = [op |-> "read_physical_line", arg |-> <<>>,
                           ret |-> [ok |-> r.ok, err |-> r.err, buf |-> r.buf]]
               /\ reader' = r.rd
       IN Returned(read_physical_line(reader, <<>>))
    /\ pc' = "ReadLine"
    /\ UNCHANGED <<container, accepted, written, stream, vcard, outcome, trace, first>>

SpecPhysical == InitPhysical /\ [][ReadPhysicalLine]_vars

(***************************************************************************)
(* read_property on a line that is followed by continuation lines, some of *)
(* which start with two fold characters or a fold character and CR or LF   *)
(***************************************************************************)

MaxHang == 3

\* physical lines that start with a fold character, without their CRLF
HangLines == {<<SP, TAB, "1", "2", "3">>, <<SP, SP>>, <<TAB, LF, "y">>, <<SP, CR>>, <<SP>>, <<SP, "z">>}

RECURSIVE WriteHang(_)
WriteHang(hang) == IF Len(hang) = 0 THEN <<>> ELSE hang[1] \o CRLF \o WriteHang(Tail(hang))

InitDiscard ==
    \E l \in {Line("FN", <<"F", "N", ":", "a">>), Line("GENDER", <<"G", "E", "N", "D", "E", "R", ":", "z", ";">>)}, limit \in {4, DEFAULT_MAX_LINE_LENGTH} :
        \E hang \in SeqUpTo(HangLines, MaxHang), follow \in {<<>>, <<Line("FN", <<"F", "N", ":", "b">>)>>} :
            /\ written = <<l>> \o follow
            /\ stream = l.text \o CRLF \o WriteHang(hang) \o WriteLines(follow)
            /\ reader = NewReader(stream, limit)
            /\ pc = "Folded"
            /\ call = [op |-> "lines", arg |-> [hang |-> hang], ret |-> <<>>]
            /\ vcard = None
            /\ outcome = None
            /\ trace = <<>>
            /\ first = None
            /\ container = <<>>
            /\ accepted = <<>>

SpecDiscard == InitDiscard /\ [][NextLines]_vars

(***************************************************************************)
(* Property::from_str on an N or an ADR line                               *)
(***************************************************************************)

MaxValue == 4

ValueChars == {"a", ";", ",", "\\"}

\* every value of up to MaxValue characters, and values with more positions
\* than N and ADR have
StructuredValues ==
    SeqUpTo(ValueChars, MaxValue)
    \cup {<<"a", ";", "b", ";", "c", ";", "d", ";", "e", ";", "f">>, <<";", ";", ";", ";", ";", "a">>, <<"a", ";", "b", ";", "c", ";", "d", ";", "e", ";", "f", ";", "g", ";", "h">>, <<";", ";", ";", ";", ";", ";", ";", "a">>, <<"a", ",", "b", ";", "c", ",", ",", "d", ";", ";", "e">>}

InitStructured ==
    \E name \in {<<"N">>, <<"A", "D", "R">>}, value \in StructuredValues :
        /\ written = <<Line("", name \o <<":">> \o value)>>
        /\ call = [op |-> "line", arg |-> [name |-> name, params |-> <<>>, value |-> value],
                   ret |-> <<>>]
        /\ stream = <<>>
        /\ reader = NewReader(<<>>, DEFAULT_MAX_LINE_LENGTH)
        /\ pc = "Line"
        /\ vcard = None
        /\ outcome = None
        /\ trace = <<>>
        /\ first = None
        /\ container = <<>>
        /\ accepted = <<>>

SpecStructured == InitStructured /\ [][NextDecode]_vars

(***************************************************************************)
(* reader.rs: read_logical_line, one action per physical line it reads and *)
(* per inspection of the line that follows.  `call.arg` is                 *)
(* logical_line_buf while a call runs (pc is not "Idle"), `call.ret` what  *)
(* the last call returned.                                                 *)
(***************************************************************************)

MaxPhys == 3

\* physical lines without their CRLF, and what follows the last CRLF
PhysLines == {<<"a">>, <<SP, "a">>, <<SP, SP>>, <<SP>>, <<SP, CR>>, END_VCARD}
PhysTails == {<<>>, <<SP>>, <<SP, "a">>, END_VCARD}

InitAssembler ==
    \E ls \in SeqUpTo(PhysLines, MaxPhys), tail \in PhysTails :
        /\ stream = WriteHang(ls) \o tail
        /\ reader = NewReader(stream, DEFAULT_MAX_LINE_LENGTH)
        /\ call = NoCall
        /\ written = <<>>
        /\ pc = "Idle"
        /\ vcard = None
        /\ outcome = None
        /\ trace = <<>>
        /\ first = None
        /\ container = <<>>
        /\ accepted = <<>>

\* what read_logical_line returns
Returned(ret) ==
    /\ call' = [op |-> "read_logical_line", arg |-> <<>>, ret |-> ret]
    /\ pc' = "Idle"

\* the call goes on with logical_line_buf at pc
GoesOn(logical_line_buf, at) ==
    /\ call' = [op |-> "read_logical_line", arg |-> logical_line_buf, ret |-> <<>>]
    /\ pc' = at

\* read_logical_line up to its loop: the first physical line
StartRead ==
    /\ pc = "Idle"
    /\ LET FirstLine(r) ==
               /\ reader' = r.rd
               /\ IF ~r.ok /\ ~(r.err.kind = "Io" /\ r.buf = END_VCARD)
                  THEN Returned(Err(r.err))
                  ELSE GoesOn(r.buf, "Loop")
       IN FirstLine(read_physical_line(reader, <<>>))
    /\ UNCHANGED <<container, accepted, written, stream, vcard, outcome, trace, first>>

\* `match self.inspect_next_line()?`
InspectNext ==
    /\ pc = "Loop"
    /\ LET Inspected(i) ==
               /\ reader' = i.rd
               /\ CASE i.kind = "NewProperty" -> Returned(Ok([line |-> call.arg, more |-> TRUE]))
                    [] i.kind = "NoMoreContent" -> Returned(Ok([line |-> call.arg, more |-> FALSE]))
                    [] i.kind = "Discard" -> GoesOn(call.arg, "Discard")
                    [] i.kind = "LogicalLine" -> GoesOn(call.arg, "Continue")
       IN Inspected(inspect_next_line(reader))
    /\ UNCHANGED <<container, accepted, written, stream, vcard, outcome, trace, first>>

\* mutant: the malformed line is left in the reader
DiscardLineKeeping ==
    /\ pc = "Discard"
    /\ GoesOn(call.arg, "Loop")
    /\ UNCHANGED <<reader, container, accepted, written, stream, vcard, outcome, trace, first>>

\* LineInspection::Discard => self.discard_line()?
DiscardLine ==
    /\ pc = "Discard"
    /\ LET Discarded(d) ==
               /\ reader' = d.rd
               /\ IF d.ok THEN GoesOn(call.arg, "Loop") ELSE Returned(Err(d.err))
       IN Discarded(discard_line(reader))
    /\ UNCHANGED <<container, accepted, written, stream, vcard, outcome, trace, first>>

\* LineInspection::LogicalLine => self.read_physical_line(&mut logical_line_buf)?
ContinueLine ==
    /\ pc = "Continue"
    /\ LET Continued(r) ==
               /\ reader' = r.rd
               /\ IF r.ok THEN GoesOn(r.buf, "Loop") ELSE Returned(Err(r.err))
       IN Continued(read_physical_line(reader, call.arg))
    /\ UNCHANGED <<container, accepted, written, stream, vcard, outcome, trace, first>>

NextAssembler == StartRead \/ InspectNext \/ DiscardLine \/ ContinueLine

SpecAssembler == InitAssembler /\ [][NextAssembler]_vars

\* read_property calls and parse_vcard calls, every call running on
SpecTerminates ==
    /\ InitAssembler \/ InitFrame
    /\ [][NextAssembler \/ NextCard]_vars
    /\ WF_vars(NextAssembler)
    /\ WF_vars(NextCard)

(***************************************************************************)
(* Claims                                                                  *)
(***************************************************************************)

\* the alt-id and the preference rank as the claims speak of them
ClaimAltId(item) == IF item.altid = None THEN <<>> ELSE item.altid[1]
ClaimRank(item) == IF item.pref = None THEN 100 ELSE item.pref[1]

(* C7: add_value on an empty container succeeds; on a non-empty one it
   succeeds exactly when the item's alt-id equals the first member's
   (absent equals absent), and otherwise returns InvalidAltID naming the
   expected and the actual alt-id; an accepted item is appended at the end,
   so the members are the accepted items in insertion order. *)
C7_AddValueContract ==
    /\ [](container = accepted)
    /\ [][call'.op = "add_value" =>
            LET item == call'.arg
                ret == call'.ret
            IN /\ Len(container) = 0 => ret.ok
               /\ Len(container) > 0 =>
                    /\ ret.ok <=> ClaimAltId(item) = ClaimAltId(container[1])
                    /\ ~ret.ok => ret.err = [kind |-> "InvalidAltID",
                                             expected_altid |-> ClaimAltId(container[1]),
                                             actual_altid |-> ClaimAltId(item)]
               /\ ret.ok => container' = Append(container, item)
               /\ ~ret.ok => container' = container]_vars

\* an absent alt-id was accepted after an absent one, and a differing one refused
C7_Witness ==
    /\ Len(container) = 2
    /\ container[1].altid = None /\ container[2].altid = None
    /\ container[1] # container[2]
    /\ call.op = "add_value" /\ ~call.ret.ok

(* C8: in a container populated through new() and add_value, after any
   sequence of successful and failed calls, every member's alt-id equals the
   first member's alt-id. *)
C8_SharedAltId ==
    \A i \in 1..Len(container) : ClaimAltId(container[i]) = ClaimAltId(container[1])

\* two members sharing alt-id 1, and the last call was refused
C8_Witness ==
    /\ Len(container) = 2
    /\ call.op = "add_value" /\ ~call.ret.ok
    /\ container[1].altid = Some(<<"1">>)

(* C10: get_prefered_value returns None on an empty container and otherwise
   a member whose preference rank (absent PREF = 100) is at most that of
   every member. *)
C10_PreferedIsMinimal ==
    call.op = "get_prefered_value" =>
        IF Len(container) = 0 THEN call.ret = None
        ELSE /\ Len(call.ret) = 1
             /\ \E i \in 1..Len(container) : container[i] = call.ret[1]
             /\ \A i \in 1..Len(container) : ClaimRank(call.ret[1]) <= ClaimRank(container[i])

\* members with PREF 50, none and 10, the PREF=10 member added last, is returned
C10_Witness ==
    /\ call.op = "get_prefered_value"
    /\ Len(container) = 3
    /\ container[1].pref = Some(50) /\ container[2].pref = None /\ container[3].pref = Some(10)
    /\ call.ret = Some(container[3])

\* the read returned a BEGIN property whose value is exactly VCARD
IsBegin(t) == t.ok /\ t.prop.type = "Begin" /\ t.prop.value = VCARD
IsType(t, type) == t.ok /\ t.prop.type = type
FailedWith(kind) == pc = "Failed" /\ outcome # None /\ outcome[1].kind = kind

(* C3: parse_vcard returns Ok only after reading, in this order, a BEGIN
   whose value is exactly VCARD with more content following, a VERSION with
   more content following, zero or more properties none of which is BEGIN,
   VERSION or END, and an END.  A first property that is anything else fails
   with InvalidBeginProperty, a second property that is not a VERSION fails
   with InvalidVersionProperty, and a stream that ends right after the BEGIN
   or right after the VERSION fails. *)
C3_CardFrame ==
    /\ pc = "Done" =>
        /\ Len(trace) >= 3
        /\ IsBegin(trace[1]) /\ trace[1].more
        /\ IsType(trace[2], "Version") /\ trace[2].more
        /\ \A i \in 3..(Len(trace) - 1) :
              trace[i].ok /\ trace[i].prop.type \notin {"Begin", "Version", "End"}
        /\ IsType(trace[Len(trace)], "End")
    /\ (Len(trace) >= 1 /\ trace[1].ok /\ ~IsBegin(trace[1])) => FailedWith("InvalidBeginProperty")
    /\ (Len(trace) >= 2 /\ trace[2].ok /\ ~IsType(trace[2], "Version")) =>
            FailedWith("InvalidVersionProperty")
    /\ (Len(trace) >= 1 /\ IsBegin(trace[1]) /\ trace[1].rest = <<>>) => pc = "Failed"
    /\ (Len(trace) >= 2 /\ IsType(trace[2], "Version") /\ trace[2].rest = <<>>) => pc = "Failed"

\* Ok after BEGIN, VERSION, one FN and END
C3_Witness ==
    /\ pc = "Done"
    /\ Len(trace) = 4
    /\ IsType(trace[3], "FN")

(* C4: an END property makes parse_vcard return Ok only if its value is
   exactly VCARD and `more` is false, and `more` is false only when no byte
   of input follows the END line's terminator; if the value differs or any
   further content follows the END line, parse_vcard returns
   InvalidEndProperty. *)
C4_EndClosesCard ==
    (pc \in {"Done", "Failed"} /\ Len(trace) >= 3 /\ IsType(trace[Len(trace)], "End")) =>
        LET end == trace[Len(trace)] IN
        /\ pc = "Done" => end.prop.value = VCARD /\ ~end.more
        /\ ~end.more => end.rest = <<>>
        /\ (end.prop.value # VCARD \/ end.rest # <<>>) => FailedWith("InvalidEndProperty")

\* the last read returned a property of the type, and an earlier read had
\* returned one too
SecondOf(type) ==
    /\ Len(trace) >= 2
    /\ IsType(trace[Len(trace)], type)
    /\ \E j \in 1..(Len(trace) - 1) : IsType(trace[j], type)

CardinalityFailure ==
    FailedWith("InvalidCardinality") /\ outcome[1].expected = 1

(* C6 as stated: a second BEGIN or a second VERSION property at any position
   after the first one makes parse_vcard fail with InvalidCardinality whose
   expected count is 1. *)
C6_SecondFrameAnywhere ==
    \A type \in {"Begin", "Version"} : SecondOf(type) => CardinalityFailure

(* C6 amended: a second BEGIN or a second VERSION property read by the
   accumulating loop, that is as the third property or later, makes
   parse_vcard fail with InvalidCardinality whose expected count is 1 and
   whose property is BEGIN or VERSION; a BEGIN read as the second property
   fails with InvalidVersionProperty. *)
C6_SecondFrameInLoop ==
    /\ \A type \in {"Begin", "Version"} :
          (SecondOf(type) /\ Len(trace) >= 3) =>
              /\ CardinalityFailure
              /\ outcome[1].property = (IF type = "Begin" THEN "BEGIN" ELSE "VERSION")
    /\ (SecondOf("Begin") /\ Len(trace) = 2) => FailedWith("InvalidVersionProperty")

\* a BEGIN read as the fourth property, after an FN
C6_Witness ==
    /\ SecondOf("Begin")
    /\ Len(trace) = 4
    /\ CardinalityFailure

\* the VCard field that holds the property written under a name
FieldNamed(name) ==
    CASE name = "KIND" -> "kind" [] name = "GENDER" -> "gender" [] name = "PRODID" -> "prodid"
      [] name = "REV" -> "rev" [] name = "UID" -> "uid" [] name = "CLIENTPIDMAP" -> "clientpidmap"
      [] name = "N" -> "n" [] name = "BDAY" -> "bday" [] name = "ANNIVERSARY" -> "anniversary"
      [] name = "FN" -> "fn_property" [] name = "EMAIL" -> "email"

\* the positions before i of the body lines written under the name of line i
Earlier(i) == {j \in 3..(i - 1) : written[j].name = written[i].name}

(* C5: a second occurrence of any of KIND, GENDER, PRODID, REV, UID or
   CLIENTPIDMAP in the same card makes parse_vcard fail with
   InvalidCardinality whose expected count is 1; a single occurrence is
   stored in the card. *)
C5_AtMostOnce ==
    \A i \in 3..Len(trace) :
        written[i].name \in {"KIND", "GENDER", "PRODID", "REV", "UID", "CLIENTPIDMAP"} =>
            IF Earlier(i) # {}
            THEN i = Len(trace) /\ CardinalityFailure
            ELSE /\ trace[i].ok
                 /\ vcard[1][FieldNamed(written[i].name)] = Some(trace[i].prop)

\* the properties the reads returned for the lines written under a name and
\* an alt-id, in the order of the lines, the read that failed the card left out
Stored(name, altid) ==
    LET n == IF pc = "Failed" THEN Len(trace) - 1 ELSE Len(trace)
        idx == SelectSeq([j \in 1..n |-> j],
                         LAMBDA j : j >= 3 /\ written[j].name = name /\ written[j].altid = altid)
    IN [k \in 1..Len(idx) |-> trace[idx[k]].prop]

(* C9: N, BDAY and ANNIVERSARY accept several occurrences only when all
   occurrences of that property share one alt-id, and otherwise parse_vcard
   fails with InvalidAltID; every other multi-valued property accepts any
   mix of alt-ids, each distinct alt-id forming its own bucket. *)
C9_AltIdBuckets ==
    /\ \A i \in 3..Len(trace) :
          written[i].name \in {"N", "BDAY", "ANNIVERSARY"} =>
              IF \E j \in Earlier(i) : written[j].altid # written[i].altid
              THEN i = Len(trace) /\ FailedWith("InvalidAltID")
              ELSE /\ trace[i].ok
                   /\ i = Len(trace) => pc # "Failed"
                   /\ vcard[1][FieldNamed(written[i].name)] = Stored(written[i].name, written[i].altid)
    /\ \A i \in 3..Len(trace) :
          written[i].name \in {"FN", "EMAIL"} =>
              LET name == written[i].name
                  field == vcard[1][FieldNamed(name)]
              IN /\ trace[i].ok
                 /\ i = Len(trace) => pc # "Failed"
                 /\ DOMAIN field = {written[j].altid : j \in {k \in 3..Len(trace) : written[k].name = name}}
                 /\ field[written[i].altid] = Stored(name, written[i].altid)

\* a card with an FN in the bucket of alt-id 1, failed by an N whose alt-id
\* differs from the first N's
C9_Witness ==
    /\ FailedWith("InvalidAltID")
    /\ Len(vcard[1].n) = 1
    /\ DOMAIN vcard[1].fn_property = {<<"1">>}

(* C2: for every logical line and every way of folding it into N physical
   lines, at every fold position, with each continuation introduced by CRLF
   followed by exactly one space or one tab, read_property on the folded
   input returns the same Property as on the unfolded line. *)
C2_FoldingInvariant ==
    pc = "Read" =>
        LET Same(u) == trace[1].ok /\ u.ok /\ trace[1].prop = u.prop
        IN Same(read_property(NewReader(written[1].text \o CRLF, DEFAULT_MAX_LINE_LENGTH)))

(* C1: for every card that parse_vcard returns, parsing the text that
   Display writes for it succeeds and yields a card equal to it field by
   field, a MultiAltIDContainer being compared as a map. *)
C1_RoundTrip ==
    (first # None /\ pc \in {"Done", "Failed"}) => (pc = "Done" /\ vcard = first)

(* C11: MultiAltIDContainer::get_prefered_value returns None when no item
   was added, and otherwise a member whose preference rank (absent PREF =
   100) is at most the rank of every member of every bucket, whatever order
   the buckets are iterated in. *)
C11_MultiPreferedIsMinimal ==
    call.op = "multi_get_prefered_value" =>
        IF accepted = <<>> THEN call.ret = None
        ELSE /\ Len(call.ret) = 1
             /\ \E k \in DOMAIN container : \E i \in 1..Len(container[k]) :
                    container[k][i] = call.ret[1]
             /\ \A k \in DOMAIN container : \A i \in 1..Len(container[k]) :
                    ClaimRank(call.ret[1]) <= ClaimRank(container[k][i])

\* two buckets, the one iterated last holding the member of least rank as
\* its second member
C11_Witness ==
    /\ call.op = "multi_get_prefered_value"
    /\ call.arg = <<<<>>, <<"1">>>>
    /\ Len(container[<<"1">>]) = 2
    /\ container[<<>>][1].pref = Some(50)
    /\ container[<<"1">>][1].pref = None
    /\ call.ret = Some(container[<<"1">>][2])
    /\ call.ret[1].pref = Some(10)

\* the kind of the error a read returned, "" if it returned a property
FailKind(t) == IF t.err = None THEN "" ELSE t.err[1].kind

\* the content of the first logical line with its folds taken out: the
\* written line, and the byte of the continuation that the stream cuts off
DeFolded ==
    written[1].text \o (IF call.arg.ending = "continuation" THEN <<"z">> ELSE <<>>)

(* C12: for every limit L and every logical line, read_property fails with
   MaxLineLengthExceeded exactly when the de-folded content of the line,
   summed over its physical lines without CRLF and fold markers, is longer
   than L; a line of exactly L bytes is returned, and no partial line. *)
C12_LimitAtThreshold ==
    pc = "Read" =>
        /\ FailKind(trace[1]) = "MaxLineLengthExceeded" <=> Len(DeFolded) > reader.max
        /\ FailKind(trace[1]) = "MaxLineLengthExceeded" => ~trace[1].ok

(* C13: when the stream ends while a logical line is being read without a
   terminating CRLF, read_property succeeds, returning the END property with
   more = false, only if the bytes buffered so far are exactly END:VCARD;
   for any other buffered content, an empty buffer and a continuation line
   cut off by the end of the stream included, it returns an I/O error. *)
C13_EndOfStream ==
    (/\ pc = "Read"
     /\ call.arg.ending \in {"eof", "cr", "marker", "continuation", "discarding"}
     /\ reader.max = DEFAULT_MAX_LINE_LENGTH) =>
        /\ trace[1].ok =>
              (DeFolded = END_VCARD /\ trace[1].prop.type = "End" /\ ~trace[1].more)
        /\ DeFolded # END_VCARD => FailKind(trace[1]) = "Io"

\* the errors of Property::from_str and of the decoders it calls
DecodeErrors == {"InvalidSyntax", "InvalidName", "InvalidVersion", "InvalidGenderError",
                 "UnknownType", "InvalidLine", "ParseIntError"}

(* C14: when read_property returns a decode error for a logical line, the
   whole failing line with its folded continuations has been consumed and
   nothing beyond it: the next read_property call returns the property of
   the following logical line, none of that line's bytes being lost. *)
C14_ResumeAfterDecodeError ==
    (/\ pc \in {"Read", "ReadNext"}
     /\ FailKind(trace[1]) \in DecodeErrors
     /\ Len(written) > 1) =>
        /\ pc = "Read" => Pending(reader) = WriteLines(Tail(written))
        /\ pc = "ReadNext" =>
              LET Same(u) ==
                      /\ trace[2].ok = u.ok
                      /\ trace[2].prop = u.prop
                      /\ trace[2].more = u.more
              IN Same(read_property(NewReader(WriteLines(Tail(written)), reader.max)))

\* a folded GENDER line with an unknown sex fails, and the TEL line after it
\* is read whole
C14_Witness ==
    /\ pc = "ReadNext"
    /\ FailKind(trace[1]) = "InvalidGenderError"
    /\ call.arg.at # {}
    /\ trace[2].ok
    /\ trace[2].prop.type = "Tel"
    /\ trace[2].prop.value = <<"1">>
    /\ trace[2].more

\* the line decoded has this name (as written) and this value
DecodedLine(name, value) ==
    pc \in {"Decoded", "Displayed"} /\ call.arg.name = name /\ call.arg.value = value

(* C15: decoding CLIENTPIDMAP:1;urn:uuid:abc yields a ClientPidMap property
   with pid_digit = 1 and value urn:uuid:abc, and decoding CLIENTPIDMAP:1,
   without ';', fails with a syntax error saying the value needs two parts
   separated by ';'. *)
C15_ClientPidMap ==
    /\ (DecodedLine(<<"C", "L", "I", "E", "N", "T", "P", "I", "D", "M", "A", "P">>, <<"1", ";", "u", "r", "n", ":", "u", "u", "i", "d", ":", "a", "b", "c">>) /\ call.arg.params = <<>>) =>
          /\ call.ret.ok
          /\ call.ret.val.type = "ClientPidMap"
          /\ call.ret.val.pid_digit = 1
          /\ call.ret.val.value = <<"u", "r", "n", ":", "u", "u", "i", "d", ":", "a", "b", "c">>
    /\ (DecodedLine(<<"C", "L", "I", "E", "N", "T", "P", "I", "D", "M", "A", "P">>, <<"1">>) /\ call.arg.params = <<>>) =>
          /\ ~call.ret.ok
          /\ call.ret.err.kind = "InvalidLine"
          /\ call.ret.err.reason = "expected clientpidmap value to have two parts separated by ';'"

\* the sex tokens of the claim and the variants they stand for
ClaimSexes == [t \in {<<"m">>, <<"f">>, <<"o">>, <<"n">>, <<"u">>} |->
                  CASE t = <<"m">> -> "Male" [] t = <<"f">> -> "Female" [] t = <<"o">> -> "Other"
                    [] t = <<"n">> -> "None" [] OTHER -> "Unknown"]

(* C16: a GENDER value is split at its first ';' only: the part before is the
   sex token, None when empty, one of m/f/o/n/u matched case-insensitively
   otherwise, and an InvalidGenderError for any other text; the part after,
   even when empty or holding further ';', becomes identity_component =
   Some(text).  A value with no ';' fails with a syntax error. *)
C16_GenderSplit ==
    (pc \in {"Decoded", "Displayed"} /\ call.arg.name = <<"G", "E", "N", "D", "E", "R">>) =>
        LET v == call.arg.value
            semis == {i \in 1..Len(v) : v[i] = ";"}
        IN IF semis = {}
           THEN ~call.ret.ok /\ call.ret.err.kind = "InvalidSyntax"
           ELSE LET i == CHOOSE j \in semis : \A k \in semis : j <= k
                    sex == SubSeq(v, 1, i - 1)
                    identity == SubSeq(v, i + 1, Len(v))
                    low == [j \in 1..Len(sex) |-> IF sex[j] = "M" THEN "m" ELSE sex[j]]
                IN IF sex = <<>>
                   THEN /\ call.ret.ok
                        /\ call.ret.val.type = "Gender"
                        /\ call.ret.val.sex = None
                        /\ call.ret.val.identity_component = Some(identity)
                   ELSE IF low \in DOMAIN ClaimSexes
                   THEN /\ call.ret.ok
                        /\ call.ret.val.type = "Gender"
                        /\ call.ret.val.sex = Some(ClaimSexes[low])
                        /\ call.ret.val.identity_component = Some(identity)
                   ELSE /\ ~call.ret.ok
                        /\ call.ret.err.kind = "InvalidGenderError"
                        /\ call.ret.err.value = sex

\* GENDER:m;trans is decoded to the sex Male and the identity "trans"
C16_Witness ==
    /\ DecodedLine(<<"G", "E", "N", "D", "E", "R">>, <<"m", ";", "t", "r", "a", "n", "s">>)
    /\ call.ret.ok
    /\ call.ret.val.sex = Some("Male")
    /\ call.ret.val.identity_component = Some(<<"t", "r", "a", "n", "s">>)

\* GENDER:; is decoded to no sex and the empty identity
C16_WitnessEmpty ==
    /\ DecodedLine(<<"G", "E", "N", "D", "E", "R">>, <<";">>)
    /\ call.ret.ok
    /\ call.ret.val.sex = None
    /\ call.ret.val.identity_component = Some(<<>>)

\* the line decoded carries a parameter with this key
HasParam(key) == \E i \in 1..Len(call.arg.params) : call.arg.params[i].key = key

(* C17: decoding a standard (not X-) property line that carries a parameter
   kind which the property's grammar does not declare, for example LABEL on
   FN, CALSCALE on TEL, or a parameter with an unrecognized key, fails with
   the UnknownParameter error. *)
C17_UnknownParameter ==
    (/\ pc \in {"Decoded", "Displayed"}
     /\ \/ call.arg.name = <<"F", "N">> /\ HasParam(<<"L", "A", "B", "E", "L">>)
        \/ call.arg.name = <<"T", "E", "L">> /\ HasParam(<<"C", "A", "L", "S", "C", "A", "L", "E">>)
        \/ call.arg.name \in {<<"F", "N">>, <<"T", "E", "L">>, <<"N">>, <<"S", "O", "U", "R", "C", "E">>} /\ HasParam(<<"F", "O", "O">>)) =>
        ~call.ret.ok /\ call.ret.err.kind = "UnknownParameter"

\* the value a written parameter of the catalog stands for, in the shape
\* Parameter holds it
ClaimParamValue(param) ==
    CASE param.kind = "Value" -> [tag |-> "Text", s |-> <<>>]
      [] param.kind = "Pref" -> 1
      [] param.kind = "Pid" -> [first_digit |-> 1, second_digit |-> Some(2)]
      [] param.kind \in {"Type", "SortAs"} -> <<param.val>>
      [] OTHER -> param.val

(* C18: for a proprietary (X-/x- named) property line, every parameter that
   was decoded from the line (ALTID, PID, MEDIATYPE, TZ, GEO, SORT-AS,
   CALSCALE, LABEL, TYPE, PREF, LANGUAGE, VALUE, and parameters with
   unrecognized keys) appears with its value in the parameters list of the
   resulting ProprietaryProperty; no decoded parameter is dropped. *)
C18_ProprietaryKeepsParameters ==
    (pc \in {"Decoded", "Displayed"} /\ call.arg.name \in {<<"X", "-", "A">>, <<"x", "-", "b">>}) =>
        /\ call.ret.ok
        /\ call.ret.val.type = "Proprietary"
        /\ \A i \in 1..Len(call.arg.params) :
              \E j \in 1..Len(call.ret.val.parameters) :
                  /\ call.ret.val.parameters[j].kind = call.arg.params[i].kind
                  /\ call.ret.val.parameters[j].v = ClaimParamValue(call.arg.params[i])

\* the text begins with a URI scheme and a colon: a letter, then letters,
\* digits, '+', '-' and '.'
IsAbsoluteUri(v) ==
    \E i \in 2..Len(v) :
        /\ v[i] = ":"
        /\ \E k \in 1..Len(LowerChars) : LowerChars[k] = ToLowerChar(v[1])
        /\ \A j \in 2..(i - 1) :
              \/ \E k \in 1..Len(LowerChars) : LowerChars[k] = ToLowerChar(v[j])
              \/ IsDigit(v[j])
              \/ v[j] \in {"+", "-", "."}

(* C19: decoding SOURCE, PHOTO, IMPP, GEO, MEMBER, LOGO, SOUND, URL, FBURL,
   CALURI, CALADURI, or the second part of CLIENTPIDMAP, succeeds only when
   the value parses as an absolute URI; for any other value decoding fails
   with an error that carries the offending text. *)
C19_AbsoluteUri ==
    (pc \in {"Decoded", "Displayed"} /\ call.arg.name = <<"S", "O", "U", "R", "C", "E">>) =>
        /\ call.ret.ok => IsAbsoluteUri(call.arg.value)
        /\ ~IsAbsoluteUri(call.arg.value) => ~call.ret.ok

\* the parameters in the order the claim gives, as they are written
ClaimOrder == <<<<";", "A", "L", "T", "I", "D", "=">>, <<";", "L", "A", "N", "G", "U", "A", "G", "E", "=">>, <<";", "V", "A", "L", "U", "E", "=">>, <<";", "P", "R", "E", "F", "=">>, <<";", "P", "I", "D", "=">>, <<";", "T", "Y", "P", "E", "=">>,
                <<";", "M", "E", "D", "I", "A", "T", "Y", "P", "E", "=">>, <<";", "C", "A", "L", "S", "C", "A", "L", "E", "=">>, <<";", "S", "O", "R", "T", "-", "A", "S", "=">>, <<";", "G", "E", "O", "=">>, <<";", "T", "Z", "=">>>>

\* where the text first holds the pattern, 0 if nowhere
FirstAt(text, pat) ==
    LET at == {i \in 1..(Len(text) - Len(pat) + 1) : SubSeq(text, i, i + Len(pat) - 1) = pat}
    IN IF at = {} THEN 0 ELSE CHOOSE i \in at : \A j \in at : i <= j

(* C20: every property type serializes the parameters it has set in the same
   relative order: ALTID, LANGUAGE, VALUE, PREF, PID, TYPE, MEDIATYPE,
   CALSCALE, SORT-AS, GEO, TZ, skipping parameters that are absent or that
   the property does not declare. *)
C20_ParameterOrder ==
    (pc = "Displayed" /\ call.ret.val.type # "Proprietary") =>
        \A a, b \in 1..Len(ClaimOrder) :
            (a < b /\ FirstAt(stream, ClaimOrder[a]) > 0 /\ FirstAt(stream, ClaimOrder[b]) > 0)
                => FirstAt(stream, ClaimOrder[a]) < FirstAt(stream, ClaimOrder[b])

\* the parameters a property type of the catalog writes, in the order its
\* struct declares the fields
ClaimFieldOrder ==
    [type \in {"FN", "Tel", "N", "Source", "Gender"} |->
        CASE type = "FN" -> <<<<";", "A", "L", "T", "I", "D", "=">>, <<";", "V", "A", "L", "U", "E", "=">>, <<";", "T", "Y", "P", "E", "=">>, <<";", "L", "A", "N", "G", "U", "A", "G", "E", "=">>, <<";", "P", "R", "E", "F", "=">>>>
          [] type = "Tel" -> <<<<";", "V", "A", "L", "U", "E", "=">>, <<";", "T", "Y", "P", "E", "=">>, <<";", "P", "I", "D", "=">>, <<";", "P", "R", "E", "F", "=">>, <<";", "A", "L", "T", "I", "D", "=">>>>
          [] type = "N" -> <<<<";", "A", "L", "T", "I", "D", "=">>, <<";", "L", "A", "N", "G", "U", "A", "G", "E", "=">>, <<";", "S", "O", "R", "T", "-", "A", "S", "=">>>>
          [] type = "Source" -> <<<<";", "P", "I", "D", "=">>, <<";", "A", "L", "T", "I", "D", "=">>, <<";", "M", "E", "D", "I", "A", "T", "Y", "P", "E", "=">>>>
          [] OTHER -> <<>>]

(* C20, as the code has it: every property type serializes the parameters it
   has set in the order in which its struct declares the fields (FN: ALTID,
   VALUE, TYPE, LANGUAGE, PREF; TEL: VALUE, TYPE, PID, PREF, ALTID; N: ALTID,
   LANGUAGE, SORT-AS; SOURCE: PID, ALTID, MEDIATYPE), a parameter being
   written exactly when the line set it and the type declares it. *)
C20_DeclarationOrder ==
    (pc = "Displayed" /\ call.ret.val.type \in DOMAIN ClaimFieldOrder) =>
        LET order == ClaimFieldOrder[call.ret.val.type] IN
        /\ \A a, b \in 1..Len(order) :
              (a < b /\ FirstAt(stream, order[a]) > 0 /\ FirstAt(stream, order[b]) > 0)
                  => FirstAt(stream, order[a]) < FirstAt(stream, order[b])
        /\ \A k \in 1..Len(ClaimOrder) :
              FirstAt(stream, ClaimOrder[k]) > 0 <=>
                  /\ \E a \in 1..Len(order) : order[a] = ClaimOrder[k]
                  /\ \E i \in 1..Len(call.arg.params) :
                        <<";">> \o call.arg.params[i].key \o <<"=">> = ClaimOrder[k]

\* a TEL line with ALTID and PID is written with PID first
C20_Witness ==
    /\ pc = "Displayed"
    /\ call.ret.val.type = "Tel"
    /\ stream = <<"T", "E", "L", ";", "P", "I", "D", "=", "1", ".", "2", ";", "A", "L", "T", "I", "D", "=", "1", ":", "a">> \o CRLF

\* the names of the properties: <<variant, name>>
ClaimNames == <<
    <<"Kind", <<"K", "I", "N", "D">>>>, <<"Gender", <<"G", "E", "N", "D", "E", "R">>>>, <<"Version", <<"V", "E", "R", "S", "I", "O", "N">>>>,
    <<"Source", <<"S", "O", "U", "R", "C", "E">>>>, <<"FN", <<"F", "N">>>>, <<"N", <<"N">>>>, <<"NickName", <<"N", "I", "C", "K", "N", "A", "M", "E">>>>,
    <<"Photo", <<"P", "H", "O", "T", "O">>>>, <<"BDay", <<"B", "D", "A", "Y">>>>, <<"Anniversary", <<"A", "N", "N", "I", "V", "E", "R", "S", "A", "R", "Y">>>>,
    <<"Adr", <<"A", "D", "R">>>>, <<"Tel", <<"T", "E", "L">>>>, <<"Email", <<"E", "M", "A", "I", "L">>>>, <<"Impp", <<"I", "M", "P", "P">>>>,
    <<"Lang", <<"L", "A", "N", "G">>>>, <<"Tz", <<"T", "Z">>>>, <<"Geo", <<"G", "E", "O">>>>, <<"Title", <<"T", "I", "T", "L", "E">>>>,
    <<"Role", <<"R", "O", "L", "E">>>>, <<"Logo", <<"L", "O", "G", "O">>>>, <<"Org", <<"O", "R", "G">>>>, <<"Member", <<"M", "E", "M", "B", "E", "R">>>>,
    <<"Related", <<"R", "E", "L", "A", "T", "E", "D">>>>, <<"Categories", <<"C", "A", "T", "E", "G", "O", "R", "I", "E", "S">>>>, <<"Note", <<"N", "O", "T", "E">>>>,
    <<"ProdId", <<"P", "R", "O", "D", "I", "D">>>>, <<"Rev", <<"R", "E", "V">>>>, <<"Sound", <<"S", "O", "U", "N", "D">>>>, <<"Uid", <<"U", "I", "D">>>>,
    <<"ClientPidMap", <<"C", "L", "I", "E", "N", "T", "P", "I", "D", "M", "A", "P">>>>, <<"Url", <<"U", "R", "L">>>>, <<"FbUrl", <<"F", "B", "U", "R", "L">>>>,
    <<"CalAdUri", <<"C", "A", "L", "A", "D", "U", "R", "I">>>>, <<"CalUri", <<"C", "A", "L", "U", "R", "I">>>>, <<"Key", <<"K", "E", "Y">>>>, <<"Xml", <<"X", "M", "L">>>>>>

ClaimName(type) == ClaimNames[CHOOSE i \in 1..Len(ClaimNames) : ClaimNames[i][1] = type][2]

\* the keys of the parameters: <<field, key>>
ClaimKeys ==
    [altid |-> <<"A", "L", "T", "I", "D">>, language |-> <<"L", "A", "N", "G", "U", "A", "G", "E">>, value_data_type |-> <<"V", "A", "L", "U", "E">>,
     pref |-> <<"P", "R", "E", "F">>, pid |-> <<"P", "I", "D">>, type_param |-> <<"T", "Y", "P", "E">>, mediatype |-> <<"M", "E", "D", "I", "A", "T", "Y", "P", "E">>,
     calscale |-> <<"C", "A", "L", "S", "C", "A", "L", "E">>, sort_as |-> <<"S", "O", "R", "T", "-", "A", "S">>, geo |-> <<"G", "E", "O">>, tz |-> <<"T", "Z">>,
     label |-> <<"L", "A", "B", "E", "L">>]

\* the text is one line: it ends with CRLF and has no other line end
OneLine(text) ==
    /\ Len(text) >= 2
    /\ text[Len(text) - 1] = CR /\ text[Len(text)] = LF
    /\ \A i \in 1..(Len(text) - 2) : text[i] \notin {CR, LF}

\* C21: serializing a single property yields exactly one line
\* [group "."] NAME {";" PARAM} ":" value CRLF: NAME is the upper-cased name of
\* the property, the group prefix is there exactly when group is set, and the
\* parameter of a field is there exactly when the field is set.  A default N
\* is written N:;;;; and a default Email EMAIL:, an Email with group foo and
\* altid asdf foo.EMAIL;ALTID=asdf:
C21_SingleLine ==
    pc \in {"Displayed", "Reparsed"} =>
        LET self == call.arg
            Checked(parts) ==
                /\ parts[1] = (IF IsSome(self.group) THEN self.group[1] \o <<".">> ELSE <<>>)
                              \o ClaimName(self.type)
                /\ \A f \in DOMAIN ClaimKeys :
                      (\E j \in 2..Len(parts) : starts_with(parts[j], ClaimKeys[f] \o <<"=">>))
                      <=> (f \in DOMAIN self /\ IsSome(self[f]))
            Header(colon) ==
                /\ colon <= Len(stream)
                /\ Checked(split(SubSeq(stream, 1, colon - 1), ";"))
        IN /\ OneLine(stream)
           /\ Header(FirstIn(stream, 1, {":"}))
           /\ (self = Build("N", <<>>) => stream = <<"N", ":", ";", ";", ";", ";">> \o CRLF)
           /\ (self = Build("Email", <<>>) => stream = <<"E", "M", "A", "I", "L", ":">> \o CRLF)
           /\ (self = [Build("Email", <<>>) EXCEPT !.group = Some(<<"f", "o", "o">>), !.altid = Some(<<"a", "s", "d", "f">>)]
                  => stream = <<"f", "o", "o", ".", "E", "M", "A", "I", "L", ";", "A", "L", "T", "I", "D", "=", "a", "s", "d", "f", ":">> \o CRLF)

\* the places of the stream where a CR is followed by an LF
CrLfAt(text) == {i \in 1..(Len(text) - 1) : text[i] = CR /\ text[i + 1] = LF}

\* C22: read_physical_line ends the physical line at the first CR LF of the
\* stream and appends every byte before that pair to the buffer, unchanged and
\* in order: a CR that no LF follows does not end the line, is not dropped, and
\* does not keep a CR LF that starts at the next byte from being recognised
C22_PhysicalLine ==
    (pc = "ReadLine" /\ CrLfAt(stream) # {}) =>
        LET Ends(k) ==
                /\ call.ret.ok
                /\ call.ret.buf = SubSeq(stream, 1, k - 1)
                /\ Pending(reader) = From(stream, k + 2)
        IN Ends(MinOf(CrLfAt(stream)))

\* a physical line that starts with a fold character which a fold character,
\* a CR or an LF follows (the CR of the line's own CRLF included)
IsMalformed(h) == Len(h) = 1 \/ h[2] \in {SP, TAB, CR, LF}

\* what the continuation lines add to the logical line: the text after the
\* fold character of every line that is not malformed
RECURSIVE ClaimKept(_)
ClaimKept(hang) ==
    IF Len(hang) = 0 THEN <<>>
    ELSE (IF IsMalformed(hang[1]) THEN <<>> ELSE Tail(hang[1])) \o ClaimKept(Tail(hang))

\* C23: when a line terminator is followed by a space or tab that is itself
\* followed by a space, a tab, a CR or an LF, the whole following physical
\* line with its CRLF is consumed and none of its bytes are appended to the
\* logical line; the assembly of the logical line goes on with the line after
\* it, so that later continuations are appended and the next property is found
C23_DiscardedLine ==
    (/\ pc = "Read"
     /\ \E i \in 1..Len(call.arg.hang) : IsMalformed(call.arg.hang[i])) =>
        LET Same(u) ==
                /\ trace[1].ok = u.ok
                /\ trace[1].prop = u.prop
                /\ trace[1].more = u.more
                /\ FailKind(trace[1]) = (IF u.ok THEN "" ELSE u.err.kind)
                /\ FailKind(trace[1]) \notin {"MaxLineLengthExceeded", "Io"} =>
                      Pending(reader) = WriteLines(Tail(written))
        IN Same(read_property(NewReader(written[1].text \o ClaimKept(call.arg.hang) \o CRLF
                                            \o WriteLines(Tail(written)), reader.max)))

\* the character at i is escaped: a backslash that is not itself escaped
\* stands before it
RECURSIVE ClaimEscaped(_, _)
ClaimEscaped(text, i) == i > 1 /\ text[i - 1] = "\\" /\ ~ClaimEscaped(text, i - 1)

\* the pieces of the text between the separators that are not escaped
ClaimSplit(text, sep) ==
    LET cuts == {i \in 1..Len(text) : text[i] = sep /\ ~ClaimEscaped(text, i)}
        PieceFrom(j) == IF j = 1 THEN 1
                    ELSE 1 + CHOOSE i \in cuts : Cardinality({k \in cuts : k < i}) = j - 2
        PieceTo(j) == IF j = Cardinality(cuts) + 1 THEN Len(text)
                   ELSE (CHOOSE i \in cuts : Cardinality({k \in cuts : k < i}) = j - 1) - 1
    IN [j \in 1..(Cardinality(cuts) + 1) |-> SubSeq(text, PieceFrom(j), PieceTo(j))]

\* the texts of a list without their backslashes, the empty ones left out:
\* what the pieces hold, whichever way the escapes are resolved
ClaimStrip(items) ==
    SelectSeq([j \in 1..Len(items) |-> SelectSeq(items[j], LAMBDA c : c # "\\")],
              LAMBDA x : x # <<>>)

\* the sub-items of a position: its pieces between the commas that are not
\* escaped
ClaimSubItems(position) == ClaimStrip(ClaimSplit(position, ","))

\* C24: an N value (5 positions) and an ADR value (7 positions) is split into
\* positions at every ';' that no escaping backslash precedes, and each position
\* into sub-items at every ',' that no escaping backslash precedes: position i
\* fills field i, positions missing at the end are empty lists, positions
\* beyond the arity are ignored, and empty sub-items are dropped
C24_StructuredValue ==
    pc = "Decoded" =>
        LET Filled(k, parts) ==
                /\ call.ret.ok
                /\ call.ret.val.type = (IF k = 5 THEN "N" ELSE "Adr")
                /\ Len(call.ret.val.positions) = k
                /\ \A i \in 1..k :
                      ClaimStrip(call.ret.val.positions[i]) =
                          (IF i <= Len(parts) THEN ClaimSubItems(parts[i]) ELSE <<>>)
        IN Filled(IF call.arg.name = <<"N">> THEN 5 ELSE 7, ClaimSplit(call.arg.value, ";"))

\* C25: read_property returns MaxLineLengthExceeded only if the logical line
\* that is being assembled is longer than max_logical_line_length: the bytes
\* of the malformed continuation lines that were discarded never count
C25_DiscardedBytesNotCounted ==
    (pc = "Read" /\ FailKind(trace[1]) = "MaxLineLengthExceeded") =>
        Len(written[1].text \o ClaimKept(call.arg.hang)) > reader.max

\* what a running call has left to do: the bytes the reader has yet to
\* deliver, and the inspection that is due
Variant == 3 * Len(Pending(reader)) + (IF pc = "Loop" THEN 1 ELSE 0)

\* C26: on every finite byte stream every call of read_property and of
\* parse_vcard terminates with a value or an error: no run of discarded
\* malformed continuation lines and no sequence of properties other than END
\* makes the assembler loop forever.  A call that runs takes its next step
\* (the fairness of SpecTerminates), and every step of a running call either
\* ends the call or makes Variant, a natural number, smaller
C26_Terminates ==
    [][(pc \in {"Loop", "Discard", "Continue", "ExpectBegin", "ExpectVersion", "Accumulating"}) =>
          ((pc' \in {"Idle", "Done", "Failed"}) \/ (Variant' < Variant))]_vars

\* a call returned a line after it discarded two malformed lines
C26_Witness ==
    /\ pc = "Idle"
    /\ call.op = "read_logical_line"
    /\ call.ret.ok
    /\ reader.discard_buf = <<SP, SP, SP>>

\* the items added so far whose alt-id is k, in the order of the calls
AddedUnder(k) == SelectSeq(accepted, LAMBDA item : ClaimAltId(item) = k)

(* C27: after any sequence of MultiAltIDContainer::add_value calls every
   bucket is non-empty, every member of the bucket under key k has alt-id k
   (an absent alt-id being the empty-string key), each added item is present
   exactly once, in the bucket of its own alt-id and after the items added
   earlier to that bucket; add_value never fails and never panics: the
   add_value of the bucket it delegates to returns Ok for every item whose
   alt-id is the key of the bucket. *)
C27_MultiBuckets ==
    /\ DOMAIN container = {ClaimAltId(accepted[i]) : i \in 1..Len(accepted)}
    /\ \A k \in DOMAIN container :
          /\ Len(container[k]) > 0
          /\ \A i \in 1..Len(container[k]) : ClaimAltId(container[k][i]) = k
          /\ container[k] = AddedUnder(k)
    /\ \A item \in Items :
          get_alt_id(item) \in DOMAIN container =>
              AltIDContainer_add_value(container[get_alt_id(item)], item).res.ok
    /\ call.op = "multi_add_value" => call.ret = <<>>

\* three calls, the first and the third for alt-id 1 and differing in PREF,
\* the second without alt-id: two buckets, the third item behind the first
C27_Witness ==
    /\ call.op = "multi_add_value"
    /\ Len(accepted) = 3
    /\ accepted[1].altid = Some(<<"1">>) /\ accepted[2].altid = None /\ accepted[3].altid = Some(<<"1">>)
    /\ accepted[1].pref # accepted[3].pref
    /\ DOMAIN container = {<<>>, <<"1">>}
    /\ container[<<"1">>] = <<accepted[1], accepted[3]>>
    /\ container[<<>>] = <<accepted[2]>>

(* C28: when AltIDContainer::add_value returns InvalidAltID the members of
   the container and their order are what they were before the call, and
   the add_value and get_prefered_value calls that follow behave as if the
   rejected call had not happened: each returns and leaves what it would
   have returned and left on the container before the rejected call. *)
C28_RejectedCallLeavesNoTrace ==
    [][(call'.op = "add_value" /\ ~call'.ret.ok) =>
          /\ call'.ret.err.kind = "InvalidAltID"
          /\ container' = container
          /\ accepted' = accepted
          /\ \A item \in Items :
                AltIDContainer_add_value(container', item) = AltIDContainer_add_value(container, item)
          /\ AltIDContainer_get_prefered_value(container') =
                AltIDContainer_get_prefered_value(container)]_vars

\* a container of one member with PREF 50 and alt-id 1 has refused an item
\* with PREF 10 and no alt-id, which would have become the preferred one
C28_Witness ==
    /\ call.op = "add_value" /\ ~call.ret.ok
    /\ call.arg.pref = Some(10) /\ call.arg.altid = None
    /\ Len(container) = 1
    /\ container[1].pref = Some(50) /\ container[1].altid = Some(<<"1">>)
    /\ AltIDContainer_get_prefered_value(container) = Some(container[1])

(* C29: for every property type the name the serializer writes is a name
   that the decoder dispatches to that same property type: the line written
   for a property of type T decodes to a property of type T (in particular
   for URL, CLIENTPIDMAP, FBURL, CALURI, CALADURI, PRODID, BDAY and
   NICKNAME). *)
C29_SameType ==
    pc = "Reparsed" => (call.ret.ok /\ call.ret.val.type = call.arg.type)

\* s is what is left of t after some of its first bytes were taken
IsSuffix(s, t) == Len(s) <= Len(t) /\ s = SubSeq(t, Len(t) - Len(s) + 1, Len(t))

(* C30: across any sequence of read_property calls on one reader the
   PushbackReader holds at most two returned bytes; return_byte and
   return_bytes are invoked only when no byte returned earlier is pending,
   that is, the read_exact of inspect_next_line leaves none; and the bytes
   delivered to the line assembler are the bytes of the stream in their
   order, each returned byte being read again exactly once: what the reader
   has yet to deliver is the rest of the stream at all times, every step
   takes bytes off its front only, an inspection gives back both bytes
   (next property, malformed line) or the second one (continuation), and the
   read of a line leaves no returned byte behind. *)
C30_Pushback ==
    /\ [](/\ reader.n \in 0..2
          /\ IsSuffix(Pending(reader), stream)
          /\ (pc = "Loop" /\ ReadTwo(reader).ok) => ReadTwo(reader).rd.n = 0)
    /\ [][/\ IsSuffix(Pending(reader'), Pending(reader))
          /\ (pc = "Loop" /\ pc' = "Discard") => (reader'.n = 2 /\ Pending(reader') = Pending(reader))
          /\ (pc = "Loop" /\ pc' = "Continue") =>
                (reader'.n = 1 /\ Pending(reader') = Tail(Pending(reader)))
          /\ (pc = "Loop" /\ pc' = "Idle") =>
                IF call'.ret.val.more
                THEN reader'.n = 2 /\ Pending(reader') = Pending(reader)
                ELSE reader'.n = 0 /\ Pending(reader') = <<>> /\ Len(Pending(reader)) < 2
          /\ (pc \in {"Idle", "Discard", "Continue"} /\ pc' # pc) => reader'.n = 0]_vars

\* a call that discarded a malformed line has returned its line, the two
\* bytes a and CR of the next property being held for the next call
C30_Witness ==
    /\ pc = "Idle"
    /\ call.op = "read_logical_line" /\ call.ret.ok /\ call.ret.val.more
    /\ reader.n = 2 /\ reader.buf = <<"a", CR>>
    /\ reader.discard_buf # <<>>
    /\ Pending(reader) = <<"a", CR, LF>>

====
